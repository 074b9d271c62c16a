---------------------------- MODULE OfficeProofs ----------------------------
(***************************************************************************)
(* Proofs about what an organisation's people are and see: Permissions,    *)
(* Listings, MyExams, MarkingQueue and Accounts, one section each, and all *)
(* of them beside an exam's life (MCOrganisation).                         *)
(*                                                                         *)
(* Permissions: what implies a permission is itself implied by less, at    *)
(* most twice over, so what expand() works out is the least grant that     *)
(* holds what it is given, and complete. A request that nobody has         *)
(* overtaken is about to give what some assistant has, or less, unless the *)
(* owner asks; and whoever holds a role holds one that has its row.        *)
(*                                                                         *)
(* Lists: a permission reaches no further than what it implies, so no list *)
(* shows what the record behind it refuses.                                *)
(*                                                                         *)
(* A student's lists: attempts begin one after another, none later than    *)
(* now, and one that is under way was not handed in.                       *)
(*                                                                         *)
(* The queue: on a script that was handed in only a written answer is      *)
(* without marks, and a marked one never goes back.                        *)
(*                                                                         *)
(* Accounts: what a request has read of addresses and numbers still holds, *)
(* or it has met somebody who wrote them; an upload, row by row, takes     *)
(* every number it can and none twice.                                     *)
(***************************************************************************)
EXTENDS MCOrganisation, ExamWorkflowProofs, SumTheorems

---------------------------------------------------------------------------
(* Permissions: what expand() comes to                                     *)

Reaches == 0..AllReach
Grants  == [Permissions -> Reaches]

Implying(p) == ImpliedBy[p] \union ImpliedOwnBy[p]

(* What is implied by permissions that are themselves implied, what is     *)
(* implied by others only, and the rest.                                   *)
TwiceImplied == {"subjects.view", "exams.view"}
OnceImplied ==
  {"questions.view", "exams.edit", "cohorts.view", "results.view", "violations.view",
   "staff.view", "candidates.view", "billing.view", "exam_access.view"}

LEMMA Layers ==
  ASSUME NEW p \in Permissions, NEW q \in Implying(p)
  PROVE  /\ q \in Permissions
         /\ \/ p \in TwiceImplied /\ q \notin TwiceImplied
            \/ p \in OnceImplied /\ q \notin TwiceImplied \union OnceImplied
<1>1. CASE q \in ImpliedBy[p]
  <2>1. q \in Permissions /\ p \in Implied(q)
    BY <1>1 DEF ImpliedBy
  <2>2. QED
    BY <2>1 DEF Implied, TwiceImplied, OnceImplied
<1>2. CASE q \in ImpliedOwnBy[p]
  <2>1. q \in Permissions /\ p \in ImpliedOwn(q)
    BY <1>2 DEF ImpliedOwnBy
  <2>2. QED
    BY <2>1 DEF ImpliedOwn, TwiceImplied, OnceImplied
<1>3. QED
  BY <1>1, <1>2 DEF Implying

LEMMA Widest ==
  ASSUME NEW S \in SUBSET Reaches, S # {}
  PROVE  Sets!Max(S) \in S /\ \A y \in S : y <= Sets!Max(S)
<1>0. Reaches = {0, 1, 2, 3}
  BY DEF Reaches, AllReach
<1>1. \E x \in S : \A y \in S : x >= y
  <2>1. CASE 3 \in S
    BY <1>0, <2>1
  <2>2. CASE 3 \notin S /\ 2 \in S
    BY <1>0, <2>2
  <2>3. CASE 3 \notin S /\ 2 \notin S /\ 1 \in S
    BY <1>0, <2>3
  <2>4. CASE 3 \notin S /\ 2 \notin S /\ 1 \notin S
    <3>1. \A x \in S : x = 0
      BY <1>0, <2>4
    <3>2. QED
      BY <3>1
  <2>5. QED
    BY <2>1, <2>2, <2>3, <2>4
<1>2. Sets!Max(S) \in S /\ \A y \in S : Sets!Max(S) >= y
  BY <1>1 DEF Sets!Max
<1>3. QED
  BY <1>0, <1>2

(* One pass gives each permission the widest reach implied, and no other.  *)
LEMMA OnePass ==
  ASSUME NEW g \in Grants
  PROVE  /\ Pass(g) \in Grants
         /\ \A p \in Permissions :
              /\ g[p] <= Pass(g)[p]
              /\ \A q \in ImpliedBy[p] : g[q] <= Pass(g)[p]
              /\ \A q \in ImpliedOwnBy[p] : g[q] > 0 => OwnReach <= Pass(g)[p]
              /\ \/ Pass(g)[p] = g[p]
                 \/ \E q \in ImpliedBy[p] : Pass(g)[p] = g[q]
                 \/ Pass(g)[p] = OwnReach /\ \E q \in ImpliedOwnBy[p] : g[q] > 0
<1> DEFINE at(p) == {g[p]} \union {g[q] : q \in ImpliedBy[p]}
                    \union {OwnReach : q \in {x \in ImpliedOwnBy[p] : g[x] > 0}}
<1>1. \A p \in Permissions : at(p) \in SUBSET Reaches /\ at(p) # {}
  BY DEF Grants, Reaches, AllReach, OwnReach, ImpliedBy
<1>2. \A p \in Permissions : Sets!Max(at(p)) \in at(p) /\ \A y \in at(p) : y <= Sets!Max(at(p))
  <2> HIDE DEF at
  <2>1. QED
    BY <1>1, Widest
<1>3. Pass(g) = [p \in Permissions |-> Sets!Max(at(p))]
  BY DEF Pass
<1>4. \A p \in Permissions : Pass(g)[p] = Sets!Max(at(p))
  BY <1>3
<1>5. Pass(g) \in Grants
  <2> HIDE DEF at
  <2>1. QED
    BY <1>1, <1>2, <1>3 DEF Grants
<1>6. ASSUME NEW p \in Permissions
      PROVE  /\ g[p] <= Pass(g)[p]
             /\ \A q \in ImpliedBy[p] : g[q] <= Pass(g)[p]
             /\ \A q \in ImpliedOwnBy[p] : g[q] > 0 => OwnReach <= Pass(g)[p]
             /\ \/ Pass(g)[p] = g[p]
                \/ \E q \in ImpliedBy[p] : Pass(g)[p] = g[q]
                \/ Pass(g)[p] = OwnReach /\ \E q \in ImpliedOwnBy[p] : g[q] > 0
  <2>1. PICK m : m = Pass(g)[p]
    OBVIOUS
  <2>2. m \in at(p) /\ \A y \in at(p) : y <= m
    BY <1>2, <1>4, <2>1
  <2>3. QED
    BY <2>1, <2>2
<1>7. QED
  BY <1>5, <1>6

(* A permission settles one pass after those that imply it.                *)
LEMMA PassSettles ==
  ASSUME NEW g \in Grants, NEW p \in Permissions, \A q \in Implying(p) : Pass(g)[q] = g[q]
  PROVE  Pass(Pass(g))[p] = Pass(g)[p]
<1>1. PICK h : h = Pass(g)
  OBVIOUS
<1>2. h \in Grants /\ \A q \in Implying(p) : h[q] = g[q] /\ q \in Permissions
  BY <1>1, OnePass, Layers
<1>3. PICK k : k = Pass(h)
  OBVIOUS
<1>4. k \in Grants
  BY <1>2, <1>3, OnePass
<1>5. h[p] \in Int /\ k[p] \in Int
  BY <1>2, <1>4 DEF Grants, Reaches, AllReach
<1>6. /\ \A q \in ImpliedBy[p] : g[q] <= h[p]
      /\ \A q \in ImpliedOwnBy[p] : g[q] > 0 => OwnReach <= h[p]
  BY <1>1, OnePass
<1>7. /\ h[p] <= k[p]
      /\ \/ k[p] = h[p]
         \/ \E q \in ImpliedBy[p] : k[p] = h[q]
         \/ k[p] = OwnReach /\ \E q \in ImpliedOwnBy[p] : h[q] > 0
  BY <1>2, <1>3, OnePass
<1>8. k[p] <= h[p]
  BY <1>2, <1>5, <1>6, <1>7 DEF Implying
<1>9. k[p] = h[p]
  BY <1>5, <1>7, <1>8
<1>10. QED
  BY <1>1, <1>3, <1>9

(* Two passes are enough: nothing is implied by what is implied twice.     *)
LEMMA TwoPasses ==
  ASSUME NEW g \in Grants
  PROVE  Pass(Pass(Pass(g))) = Pass(Pass(g))
<1>1. ASSUME NEW h \in Grants, NEW p \in Permissions, p \notin TwiceImplied \union OnceImplied
      PROVE  Pass(h)[p] = h[p]
  <2>1. Implying(p) = {}
    BY <1>1, Layers
  <2>2. ImpliedBy[p] = {} /\ ImpliedOwnBy[p] = {}
    BY <2>1 DEF Implying
  <2>3. QED
    BY <2>2, OnePass
<1>2. ASSUME NEW h \in Grants, NEW p \in Permissions, p \notin TwiceImplied
      PROVE  Pass(Pass(h))[p] = Pass(h)[p]
  <2>1. ASSUME NEW q \in Implying(p) PROVE Pass(h)[q] = h[q]
    <3>1. q \in Permissions /\ q \notin TwiceImplied \union OnceImplied
      BY <1>2, Layers
    <3>2. QED
      BY <1>1, <3>1
  <2>2. QED
    BY <2>1, PassSettles
<1>3. PICK h : h = Pass(g)
  OBVIOUS
<1>4. h \in Grants /\ Pass(h) \in Grants /\ Pass(Pass(h)) \in Grants
  BY <1>3, OnePass
<1>5. ASSUME NEW p \in Permissions
      PROVE  Pass(Pass(h))[p] = Pass(h)[p]
  <2>1. CASE p \notin TwiceImplied
    BY <1>2, <1>4, <2>1
  <2>2. CASE p \in TwiceImplied
    <3>1. ASSUME NEW q \in Implying(p) PROVE Pass(h)[q] = h[q]
      <4>1. q \in Permissions /\ q \notin TwiceImplied
        BY <2>2, Layers DEF OnceImplied, TwiceImplied
      <4>2. QED
        BY <1>2, <1>3, <4>1
    <3>2. QED
      BY <1>4, <3>1, PassSettles
  <2>3. QED
    BY <2>1, <2>2
<1>6. Pass(Pass(h)) = Pass(h)
  BY <1>4, <1>5 DEF Grants
<1>7. QED
  BY <1>3, <1>6

---------------------------------------------------------------------------
LEMMA FewAreFinite ==
  ASSUME NEW a, NEW b, NEW c, NEW d, NEW e
  PROVE  IsFiniteSet({a, b, c, d, e})
<1>1. IsFiniteSet({a})
  BY FS_Singleton
<1>2. IsFiniteSet({a} \union {b})
  BY <1>1, FS_AddElement
<1>3. IsFiniteSet(({a} \union {b}) \union {c})
  BY <1>2, FS_AddElement
<1>4. IsFiniteSet((({a} \union {b}) \union {c}) \union {d})
  BY <1>3, FS_AddElement
<1>5. IsFiniteSet(((({a} \union {b}) \union {c}) \union {d}) \union {e})
  BY <1>4, FS_AddElement
<1>6. ((({a} \union {b}) \union {c}) \union {d}) \union {e} = {a, b, c, d, e}
  OBVIOUS
<1>7. QED
  BY <1>5, <1>6

LEMMA ManyPermissions ==
  Cardinality(Permissions) \in Nat /\ Cardinality(Permissions) >= 2
<1> DEFINE A == {"subjects.view", "questions.view", "questions.manage", "banks_topics.manage", "exams.view"}
           B == {"exams.edit", "exams.submit", "exams.approve", "exams.assign", "exams.release_results"}
           C == {"exams.change_attempts", "results.view", "results.export", "results.mark", "violations.view"}
           D == {"violations.review", "cohorts.view", "exam_access.view", "exam_access.pay", "subjects.manage"}
           E == {"subjects.assign_staff", "banks.assign_staff", "exams.create", "exams.delete", "exams.override_status"}
           F == {"exams.audit_log", "attempts.reset", "candidates.view", "candidates.manage", "cohorts.manage"}
           G == {"staff.view", "staff.manage", "roles.manage", "settings.manage", "billing.view"}
           H == {"billing.pay_exam_access", "billing.manage", "billing.manage", "billing.manage", "billing.manage"}
<1>1. /\ IsFiniteSet(A) /\ IsFiniteSet(B) /\ IsFiniteSet(C) /\ IsFiniteSet(D)
      /\ IsFiniteSet(E) /\ IsFiniteSet(F) /\ IsFiniteSet(G) /\ IsFiniteSet(H)
  BY FewAreFinite
<1>2. Permissions = ((A \union B) \union (C \union D)) \union ((E \union F) \union (G \union H))
  BY DEF Permissions, Scoped, CandidateOnly
<1>3. IsFiniteSet(((A \union B) \union (C \union D)) \union ((E \union F) \union (G \union H)))
  <2> HIDE DEF A, B, C, D, E, F, G, H
  <2>1. IsFiniteSet(A \union B) /\ IsFiniteSet(C \union D) /\ IsFiniteSet(E \union F) /\ IsFiniteSet(G \union H)
    BY <1>1, FS_Union
  <2>2. IsFiniteSet((A \union B) \union (C \union D)) /\ IsFiniteSet((E \union F) \union (G \union H))
    BY <2>1, FS_Union
  <2>3. QED
    BY <2>2, FS_Union
<1>4. IsFiniteSet(Permissions)
  BY <1>2, <1>3
<1>5. IsFiniteSet(CandidateOnly) /\ Cardinality(CandidateOnly) = 2
  <2>1. Cardinality({"exam_access.view"}) = 1 /\ IsFiniteSet({"exam_access.view"})
    BY FS_Singleton
  <2>2. CandidateOnly = {"exam_access.view"} \union {"exam_access.pay"}
    BY DEF CandidateOnly
  <2>3. "exam_access.pay" \notin {"exam_access.view"}
    OBVIOUS
  <2>4. QED
    BY <2>1, <2>2, <2>3, FS_AddElement
<1>6. CandidateOnly \in SUBSET Permissions
  BY DEF Permissions
<1>7. Cardinality(CandidateOnly) <= Cardinality(Permissions)
  BY <1>4, <1>6, FS_Subset
<1>8. QED
  BY <1>4, <1>5, <1>7, FS_CardinalityType

(* expand() stops where two passes come.                                   *)
LEMMA ExpandIsTwoPasses ==
  ASSUME NEW g \in Grants
  PROVE  Expand(g) = Pass(Pass(g))
<1> DEFINE n       == Cardinality(Permissions)
           step(f) == [i \in 0..n |-> IF i = 0 THEN g ELSE Pass(f[i - 1])]
           two     == Pass(Pass(g))
<1>1. Expand(g) = (CHOOSE f : f = step(f))[n]
  BY Zenon DEF Expand
<1>2. n \in Nat /\ n >= 2
  BY ManyPermissions
<1>3. Pass(two) = two
  BY TwoPasses
<1> HIDE DEF n
<1>4. \E f : f = step(f)
  <2> DEFINE w == [i \in 0..n |-> IF i = 0 THEN g ELSE IF i = 1 THEN Pass(g) ELSE two]
  <2>1. ASSUME NEW i \in 0..n
        PROVE  w[i] = IF i = 0 THEN g ELSE Pass(w[i - 1])
    <3>1. CASE i = 0
      BY <3>1
    <3>2. CASE i = 1
      BY <1>2, <3>2
    <3>3. CASE i = 2
      BY <1>2, <3>3
    <3>4. CASE i > 2
      <4>1. i - 1 \in 0..n /\ i - 1 # 0 /\ i - 1 # 1
        BY <1>2, <3>4
      <4>2. w[i] = two /\ w[i - 1] = two
        BY <3>4, <4>1
      <4>3. QED
        BY <1>3, <3>4, <4>2
    <3>5. QED
      BY <3>1, <3>2, <3>3, <3>4
  <2>2. w = step(w)
    BY <2>1
  <2>3. QED
    BY <2>2
<1>5. PICK f : f = step(f) /\ Expand(g) = f[n]
  <2> HIDE DEF step
  <2>1. QED
    BY <1>1, <1>4
<1>6. \A i \in 0..n : f[i] = IF i = 0 THEN g ELSE Pass(f[i - 1])
  BY <1>5
<1>7. f[2] = two
  <2>1. f[0] = g /\ f[1] = Pass(f[0]) /\ f[2] = Pass(f[1])
    BY <1>2, <1>6
  <2>2. QED
    BY <2>1
<1> DEFINE Bad == {i \in 2..n : f[i] # two}
<1>8. Bad = {}
  <2> SUFFICES ASSUME Bad # {} PROVE FALSE
    OBVIOUS
  <2>1. PICK m \in Bad : \A k \in Bad : m <= k
    <3>1. Bad \subseteq Nat
      BY <1>2
    <3>2. Bad # {}
      OBVIOUS
    <3> HIDE DEF Bad
    <3>3. QED
      BY <3>1, <3>2, LeastNumber
  <2>2. m \in 3..n /\ f[m] # two
    BY <1>2, <1>7, <2>1
  <2>3. m - 1 \in 2..n /\ m - 1 \notin Bad
    BY <1>2, <2>1, <2>2
  <2>4. f[m - 1] = two
    BY <2>3
  <2>5. f[m] = Pass(f[m - 1])
    BY <1>2, <1>6, <2>2
  <2>6. QED
    BY <1>3, <2>2, <2>4, <2>5
<1>9. f[n] = two
  BY <1>2, <1>8
<1>10. QED
  BY <1>5, <1>9

(* Whatever is given, expand() adds what is implied and nothing else.      *)
LEMMA ExpandAdds ==
  ASSUME NEW g \in Grants, NEW e, e = Expand(g)
  PROVE  /\ e \in Grants /\ Pass(e) = e
         /\ \A p \in Permissions : e[p] > g[p] =>
              \/ \E q \in ImpliedBy[p] : e[q] = e[p]
              \/ e[p] = OwnReach /\ \E q \in ImpliedOwnBy[p] : e[q] > 0
<1>1. PICK h : h = Pass(g)
  OBVIOUS
<1>2. e = Pass(h)
  BY <1>1, ExpandIsTwoPasses
<1>3. h \in Grants /\ e \in Grants /\ Pass(e) = e
  BY <1>1, <1>2, OnePass, TwoPasses
<1>4. ASSUME NEW p \in Permissions, e[p] > g[p]
      PROVE  \/ \E q \in ImpliedBy[p] : e[q] = e[p]
             \/ e[p] = OwnReach /\ \E q \in ImpliedOwnBy[p] : e[q] > 0
  <2>1. \A q \in Permissions : q \in ImpliedBy[p] \union ImpliedOwnBy[p] \union {p} =>
          /\ g[q] \in Int /\ h[q] \in Int /\ e[q] \in Int
          /\ g[q] <= h[q] /\ h[q] <= e[q]
    BY <1>1, <1>2, <1>3, OnePass DEF Grants, Reaches, AllReach
  <2>2. \A q \in ImpliedBy[p] \union ImpliedOwnBy[p] : q \in Permissions
    BY DEF ImpliedBy, ImpliedOwnBy
  <2>3. \A q \in ImpliedBy[p] : e[q] <= e[p]
    BY <1>3, OnePass
  <2>4. \/ e[p] = h[p]
        \/ \E q \in ImpliedBy[p] : e[p] = h[q]
        \/ e[p] = OwnReach /\ \E q \in ImpliedOwnBy[p] : h[q] > 0
    BY <1>2, <1>3, OnePass
  <2>5. \/ h[p] = g[p]
        \/ \E q \in ImpliedBy[p] : h[p] = g[q]
        \/ h[p] = OwnReach /\ \E q \in ImpliedOwnBy[p] : g[q] > 0
    BY <1>1, OnePass
  <2>6. ASSUME NEW q \in ImpliedBy[p], e[p] = h[q] \/ e[p] = g[q] PROVE e[q] = e[p]
    BY <2>1, <2>2, <2>3, <2>6
  <2>7. ASSUME NEW q \in ImpliedOwnBy[p], h[q] > 0 \/ g[q] > 0 PROVE e[q] > 0
    BY <2>1, <2>2, <2>7
  <2>8. CASE e[p] = h[p]
    <3>1. h[p] # g[p]
      BY <1>4, <2>1, <2>8
    <3>2. QED
      BY <2>5, <2>6, <2>7, <2>8, <3>1
  <2>9. QED
    BY <2>4, <2>6, <2>7, <2>8
<1>5. QED
  BY <1>3, <1>4

LEMMA DefaultsAreGrants ==
  ASSUME NEW n \in SystemRoles \union Fixed
  PROVE  DefaultGrants[n] \in Grants
<1>1. \A S, reach : reach \in Reaches => Granted(S, reach) \in Grants
  BY DEF Granted, Grants, Reaches, AllReach
<1>2. 0 \in Reaches /\ OwnReach \in Reaches /\ AssignedReach \in Reaches /\ AllReach \in Reaches
  BY DEF Reaches, OwnReach, AssignedReach, AllReach
<1>3. \A g \in Grants : [g EXCEPT !["exams.create"] = AllReach, !["exams.submit"] = OwnReach] \in Grants
  BY <1>2 DEF Grants
<1>4. n \in {"super_admin", "admin", "teacher", "supervisor", "staff", "student"}
  BY DEF SystemRoles, Fixed
<1> HIDE DEF Grants
<1>5. QED
  BY <1>1, <1>2, <1>3, <1>4 DEF DefaultGrants

(* What every role grants is complete. *)
LEMMA EffectiveComplete ==
  ASSUME NEW n \in GrantNames
  PROVE  Effective[n] \in Grants /\ Pass(Effective[n]) = Effective[n]
<1> DEFINE g == IF n \in PayloadNames THEN Payload[n] ELSE DefaultGrants[n]
<1>1. g \in Grants
  BY PayloadAssumption, DefaultsAreGrants DEF GrantNames, Grants, Reaches
<1>2. Effective[n] = Expand(g)
  BY DEF Effective
<1> HIDE DEF g
<1>3. QED
  BY <1>1, <1>2, ExpandAdds

LEMMA ExpandLeast == ExpandIsLeast
<1> SUFFICES ASSUME NEW n \in PayloadNames
             PROVE  LET e == Effective[n] IN
                    /\ Pass(e) = e
                    /\ \A p \in Permissions : e[p] > Payload[n][p] =>
                         \/ \E q \in ImpliedBy[p] : e[q] = e[p]
                         \/ e[p] = OwnReach /\ \E q \in ImpliedOwnBy[p] : e[q] > 0
  BY DEF ExpandIsLeast
<1>1. Payload[n] \in Grants
  BY PayloadAssumption DEF Grants, Reaches
<1>2. Effective[n] = Expand(Payload[n])
  BY DEF Effective, GrantNames
<1>3. QED
  BY <1>1, <1>2, ExpandAdds

---------------------------------------------------------------------------
(* Roles and who holds them                                                *)

Given(n) == \E b \in Assistants : <<n, Resolve(holds[b])>> \in Within

(* The membership that an assignment leaves. *)
Assigned(w) ==
  [base |-> WrittenOver(w.base, holds[w.whom].base), id |-> WrittenOver(w.id, holds[w.whom].id)]

(* What is under way, when nobody has overtaken it, grants what some       *)
(* assistant has, unless the owner asked for it; and makes no member whose *)
(* two columns name different roles.                                       *)
WorkSound(w) ==
  /\ w.op \in {"create", "add", "update"} =>
       w.what \in PayloadNames \/ (w.op # "create" /\ w.what = "keep")
  /\ w.op = "assign" =>
       /\ w.whom \in Assistants
       /\ ~ w.met /\ Assigned(w).id # "none" => Assigned(w).base = "staff"
       /\ ~ w.met /\ ~ w.owner => Given(Resolve(Assigned(w)))
  /\ w.op \in {"create", "add", "update"} /\ ~ w.met /\ ~ w.owner => w.what = "keep" \/ Given(w.what)

(* A role that is held, or about to be given, has its row. *)
HasRow(c) == c \in CustomRoles => custom[c] # "none"

RoleInv ==
  /\ RoleTypeOK
  /\ \A s \in Assistants : HasRow(holds[s].id)
  /\ \A r \in RoleReqs : HasRow(roleWork[r].id) /\ WorkSound(roleWork[r])

RoleOps == {"none", "create", "add", "update", "reset", "delete", "assign"}

RoleWorks ==
  [op : RoleOps, owner : BOOLEAN,
   key : RolesInPlay \union CustomRoles \union {"none"},
   what : PayloadNames \union {"keep", "default"}, whom : Assistants \union {"none"},
   base : RolesInPlay \union {"keep"}, id : CustomRoles \union {"none", "keep"}, met : BOOLEAN]

LEMMA NoRoleWorkTyped == NoRoleWork \in RoleWorks /\ NoRoleWork.op = "none" /\ NoRoleWork.id = "keep"
BY DEF NoRoleWork, RoleWorks, RoleOps

LEMMA KeepIsNoRole == "keep" \notin CustomRoles /\ "none" \notin CustomRoles
BY RoleNamesAssumption

LEMMA RoleBegins == RoleInit => RoleInv
<1> SUFFICES ASSUME RoleInit PROVE RoleInv
  OBVIOUS
<1>1. RoleTypeOK
  BY NoRoleWorkTyped DEF RoleInit, RoleTypeOK, RoleWorks, RoleOps
<1>2. \A s \in Assistants : HasRow(holds[s].id)
  BY KeepIsNoRole DEF RoleInit, HasRow
<1>3. \A r \in RoleReqs : HasRow(roleWork[r].id) /\ WorkSound(roleWork[r])
  BY KeepIsNoRole, NoRoleWorkTyped DEF RoleInit, HasRow, WorkSound
<1>4. QED
  BY <1>1, <1>2, <1>3 DEF RoleInv

(* A request that is taken on keeps the invariant when it is sound itself. *)
LEMMA RoleTaken ==
  ASSUME RoleInv, NEW r \in RoleReqs, NEW w \in RoleWorks, TakesOn(r, w),
         WorkSound(w), HasRow(w.id)
  PROVE  RoleInv'
<1>1. /\ edited' = edited /\ custom' = custom /\ holds' = holds
      /\ roleWork' = [roleWork EXCEPT ![r] = w] /\ roleWork \in [RoleReqs -> RoleWorks]
  BY DEF TakesOn, RoleInv, RoleTypeOK, RoleWorks, RoleOps
<1>2. RoleTypeOK'
  BY <1>1 DEF RoleInv, RoleTypeOK, RoleWorks, RoleOps
<1>3. \A s \in Assistants : HasRow(holds[s].id)'
  BY <1>1 DEF RoleInv, HasRow
<1>4. ASSUME NEW q \in RoleReqs PROVE (HasRow(roleWork[q].id) /\ WorkSound(roleWork[q]))'
  <2>1. PICK v : v = roleWork'[q]
    OBVIOUS
  <2>2. HasRow(v.id) /\ WorkSound(v)
    BY <1>1, <2>1 DEF RoleInv
  <2>3. QED
    BY <1>1, <2>1, <2>2 DEF HasRow, WorkSound, Assigned, Given, Resolve
<1>5. QED
  BY <1>2, <1>3, <1>4 DEF RoleInv

(* When a request commits, the others have been overtaken or are dropped.  *)
LEMMA RoleCommitted ==
  ASSUME RoleInv, NEW r \in RoleReqs, NEW gone \in SUBSET CustomRoles, roleWork' = Met(r, gone),
         edited' \in [RolesInPlay -> PayloadNames \union {"norow", "default"}],
         custom' \in [CustomRoles -> PayloadNames \union {"none"}],
         holds' \in [Assistants -> [base : RolesInPlay, id : CustomRoles \union {"none"}]],
         \A c \in CustomRoles \ gone : custom[c] # "none" => custom'[c] # "none",
         \A s \in Assistants : holds'[s].id \in CustomRoles => custom'[holds'[s].id] # "none"
  PROVE  RoleInv'
<1>1. roleWork \in [RoleReqs -> RoleWorks]
  BY DEF RoleInv, RoleTypeOK, RoleWorks, RoleOps
<1>2. \A q \in RoleReqs : roleWork'[q] = NoRoleWork \/
        /\ roleWork'[q] = [roleWork[q] EXCEPT !.met = TRUE]
        /\ roleWork[q].id \notin gone
  BY DEF Met
<1>3. roleWork' \in [RoleReqs -> RoleWorks]
  <2>1. ASSUME NEW v \in RoleWorks PROVE [v EXCEPT !.met = TRUE] \in RoleWorks
    <3>1. PICK u : u = [v EXCEPT !.met = TRUE]
      OBVIOUS
    <3>2. u = [op |-> v.op, owner |-> v.owner, key |-> v.key, what |-> v.what, whom |-> v.whom,
               base |-> v.base, id |-> v.id, met |-> TRUE]
      BY <3>1 DEF RoleWorks
    <3>3. QED
      BY <3>1, <3>2 DEF RoleWorks
  <2>2. ASSUME NEW q \in RoleReqs PROVE roleWork'[q] \in RoleWorks
    <3>1. roleWork[q] \in RoleWorks
      BY <1>1
    <3>2. [roleWork[q] EXCEPT !.met = TRUE] \in RoleWorks
      BY <2>1, <3>1
    <3>3. QED
      BY <1>2, <3>2, NoRoleWorkTyped
  <2>3. DOMAIN roleWork' = RoleReqs /\ roleWork' = [q \in RoleReqs |-> roleWork'[q]]
    BY DEF Met
  <2>4. QED
    BY <2>2, <2>3
<1>4. RoleTypeOK'
  BY <1>3 DEF RoleTypeOK, RoleWorks, RoleOps
<1>5. \A s \in Assistants : HasRow(holds[s].id)'
  BY DEF HasRow
<1>6. ASSUME NEW q \in RoleReqs PROVE (HasRow(roleWork[q].id) /\ WorkSound(roleWork[q]))'
  <2>1. PICK v : v = roleWork'[q]
    OBVIOUS
  <2>2. PICK u : u = roleWork[q]
    OBVIOUS
  <2>3. u \in RoleWorks /\ HasRow(u.id) /\ WorkSound(u)
    BY <1>1, <2>2 DEF RoleInv
  <2>4. CASE v = NoRoleWork
    BY <2>1, <2>4, NoRoleWorkTyped, KeepIsNoRole DEF HasRow, WorkSound
  <2>5. CASE v = [u EXCEPT !.met = TRUE] /\ u.id \notin gone
    <3>1. v.met /\ v.op = u.op /\ v.what = u.what /\ v.whom = u.whom /\ v.id = u.id
      BY <2>3, <2>5 DEF RoleWorks
    <3>2. v.id \in CustomRoles => custom'[v.id] # "none"
      BY <2>3, <2>5, <3>1 DEF HasRow
    <3>3. QED
      BY <2>1, <2>3, <3>1, <3>2 DEF HasRow, WorkSound
  <2>6. QED
    BY <1>2, <2>1, <2>2, <2>4, <2>5
<1>7. QED
  BY <1>4, <1>5, <1>6 DEF RoleInv

LEMMA WithinItself ==
  ASSUME NEW n \in GrantNames
  PROVE  <<n, n>> \in Within
<1> DEFINE Below(k) == {m \in GrantNames : \A p \in Permissions : Effective[m][p] <= Effective[k][p]}
<1>1. \A p \in Permissions : Effective[n][p] \in Int
  BY EffectiveComplete DEF Grants, Reaches, AllReach
<1>2. n \in Below(n)
  BY <1>1
<1>3. <<n, n>> \in Below(n) \X {n}
  <2> HIDE DEF Below
  <2>1. QED
    BY <1>2
<1>4. QED
  BY <1>3 DEF Within

(* What a member holds is one of the things granted. *)
LEMMA HeldIsGrant ==
  ASSUME RoleInv, NEW s \in Assistants
  PROVE  Resolve(holds[s]) \in GrantNames
<1>1. holds[s].base \in RolesInPlay /\ holds[s].id \in CustomRoles \union {"none"}
  BY DEF RoleInv, RoleTypeOK
<1>2. CASE holds[s].id # "none"
  <2>1. holds[s].id \in CustomRoles /\ custom[holds[s].id] # "none"
    BY <1>1, <1>2 DEF RoleInv, HasRow
  <2>2. custom[holds[s].id] \in PayloadNames
    BY <2>1 DEF RoleInv, RoleTypeOK
  <2>3. QED
    BY <1>2, <2>2 DEF Resolve, GrantNames
<1>3. CASE holds[s].id = "none"
  BY <1>1, <1>3, RolesAssumption DEF Resolve, GrantNames
<1>4. QED
  BY <1>2, <1>3

LEMMA HeldIsGiven ==
  ASSUME RoleInv, NEW s \in Assistants
  PROVE  Given(Resolve(holds[s]))
BY HeldIsGrant, WithinItself DEF Given

(* What an assistant may give, some assistant has. *)
LEMMA GivesWhatSomebodyHas ==
  ASSUME NEW by \in Askers, by # Owner, NEW n, Gives(by, n)
  PROVE  Given(n)
BY DEF Askers, Gives, Holds, Given

LEMMA AskedRoleKept ==
  ASSUME RoleInv, NEW r \in RoleReqs, NEW by \in Askers, NEW n \in PayloadNames,
         NEW k \in RolesInPlay \union CustomRoles,
         (k \in CustomRoles /\ AskCreateRole(r, by, k, n)) \/ AskUpdateRole(r, by, k, n)
  PROVE  RoleInv' /\ roleWork'[r].op # "none" /\ \A q \in RoleReqs : q # r => roleWork'[q] = roleWork[q]
<1> DEFINE current == IF k \in RolesInPlay THEN edited[k] ELSE custom[k]
<1>1. Gives(by, n)
  BY DEF AskCreateRole, AskUpdateRole
<1>2. PICK w : /\ TakesOn(r, w)
               /\ \/ w = [NoRoleWork EXCEPT !.op = "create", !.owner = (by = Owner), !.key = k, !.what = n]
                  \/ w = [NoRoleWork EXCEPT !.op = IF current = "norow" THEN "add" ELSE "update",
                          !.owner = (by = Owner), !.key = k, !.what = IF n = current THEN "keep" ELSE n]
  BY DEF AskCreateRole, AskUpdateRole
<1> HIDE DEF current
<1>3. PICK o : o = (by = Owner) /\ o \in BOOLEAN
  OBVIOUS
<1>4. \/ w = [op |-> "create", owner |-> o, key |-> k, what |-> n,
              whom |-> "none", base |-> "keep", id |-> "keep", met |-> FALSE]
      \/ \E op \in {"add", "update"}, x \in {"keep", n} :
           w = [op |-> op, owner |-> o, key |-> k, what |-> x,
                whom |-> "none", base |-> "keep", id |-> "keep", met |-> FALSE]
  BY <1>2, <1>3 DEF NoRoleWork
<1>5. w \in RoleWorks /\ w.op \in {"create", "add", "update"} /\ w.owner = o /\ w.id = "keep"
      /\ (w.what = n \/ (w.op # "create" /\ w.what = "keep"))
  <2>1. ASSUME NEW op \in {"create", "add", "update"}, NEW x \in {"keep", n},
               w = [op |-> op, owner |-> o, key |-> k, what |-> x,
                    whom |-> "none", base |-> "keep", id |-> "keep", met |-> FALSE]
        PROVE  w \in RoleWorks /\ w.op = op /\ w.owner = o /\ w.id = "keep" /\ w.what = x
    BY <1>3, <2>1 DEF RoleWorks, RoleOps
  <2>2. QED
    BY <1>4, <2>1
<1>6. ~ w.owner => Given(n)
  BY <1>1, <1>3, <1>5, GivesWhatSomebodyHas
<1>7. WorkSound(w) /\ HasRow(w.id)
  BY <1>5, <1>6, KeepIsNoRole DEF WorkSound, HasRow
<1>8. RoleInv'
  BY <1>2, <1>5, <1>7, RoleTaken
<1>9. roleWork' = [roleWork EXCEPT ![r] = w] /\ DOMAIN roleWork = RoleReqs
  BY <1>2 DEF TakesOn, RoleInv, RoleTypeOK
<1>10. QED
  BY <1>5, <1>8, <1>9

LEMMA AskedGoneKept ==
  ASSUME RoleInv, NEW r \in RoleReqs, NEW by \in Askers, NEW k \in RolesInPlay \union CustomRoles,
         (k \in RolesInPlay /\ AskResetRole(r, by, k)) \/ (k \in CustomRoles /\ AskDeleteRole(r, by, k))
  PROVE  RoleInv' /\ roleWork'[r].op # "none" /\ \A q \in RoleReqs : q # r => roleWork'[q] = roleWork[q]
<1>1. PICK w : /\ TakesOn(r, w)
               /\ \/ w = [NoRoleWork EXCEPT !.op = "reset", !.owner = (by = Owner), !.key = k, !.what = "default"]
                  \/ w = [NoRoleWork EXCEPT !.op = "delete", !.owner = (by = Owner), !.key = k]
  BY DEF AskResetRole, AskDeleteRole
<1>2. PICK o : o = (by = Owner) /\ o \in BOOLEAN
  OBVIOUS
<1>3. \E op \in {"reset", "delete"}, x \in {"keep", "default"} :
        w = [op |-> op, owner |-> o, key |-> k, what |-> x,
             whom |-> "none", base |-> "keep", id |-> "keep", met |-> FALSE]
  BY <1>1, <1>2 DEF NoRoleWork
<1>4. w \in RoleWorks /\ w.op \in {"reset", "delete"} /\ w.id = "keep"
  BY <1>2, <1>3 DEF RoleWorks, RoleOps
<1>5. WorkSound(w) /\ HasRow(w.id)
  BY <1>4, KeepIsNoRole DEF WorkSound, HasRow
<1>6. RoleInv'
  BY <1>1, <1>4, <1>5, RoleTaken
<1>7. roleWork' = [roleWork EXCEPT ![r] = w] /\ DOMAIN roleWork = RoleReqs
  BY <1>1 DEF TakesOn, RoleInv, RoleTypeOK
<1>8. QED
  BY <1>4, <1>6, <1>7

LEMMA AskedAssignKept ==
  ASSUME RoleInv, NEW r \in RoleReqs, NEW by \in Askers, NEW s \in Assistants,
         NEW k \in RolesInPlay \union CustomRoles, AskAssignRole(r, by, s, k)
  PROVE  RoleInv' /\ roleWork'[r].op # "none" /\ \A q \in RoleReqs : q # r => roleWork'[q] = roleWork[q]
<1>1. PICK base, id : base = BaseOf(k) /\ id = IF k \in SystemRoles THEN "none" ELSE k
  OBVIOUS
<1>2. PICK o : o = (by = Owner) /\ o \in BOOLEAN
  OBVIOUS
<1>3. PICK w : w = [op |-> "assign", owner |-> o, key |-> "none", what |-> "keep", whom |-> s,
                    base |-> Differs(base, holds[s].base), id |-> Differs(id, holds[s].id), met |-> FALSE]
  OBVIOUS
<1>4. TakesOn(r, w) /\ Gives(by, Resolve([base |-> base, id |-> id]))
      /\ (k \in CustomRoles => custom[k] # "none")
  <2> DEFINE i == IF k \in SystemRoles THEN "none" ELSE k
  <2>1. PICK v : v = [NoRoleWork EXCEPT !.op = "assign", !.owner = (by = Owner), !.whom = s,
                      !.base = Differs(BaseOf(k), holds[s].base), !.id = Differs(i, holds[s].id)]
    OBVIOUS
  <2>2. TakesOn(r, v) /\ Gives(by, Resolve([base |-> BaseOf(k), id |-> i]))
        /\ (k \in CustomRoles => custom[k] # "none")
    BY <2>1 DEF AskAssignRole
  <2>3. base = BaseOf(k) /\ id = i
    BY <1>1
  <2> HIDE DEF i
  <2>4. PICK x, y : x = Differs(base, holds[s].base) /\ y = Differs(id, holds[s].id)
    OBVIOUS
  <2>5. v = [NoRoleWork EXCEPT !.op = "assign", !.owner = o, !.whom = s, !.base = x, !.id = y]
    BY <1>2, <2>1, <2>3, <2>4
  <2>6. v = w
    <3>1. v = [op |-> "assign", owner |-> o, key |-> "none", what |-> "keep", whom |-> s,
               base |-> x, id |-> y, met |-> FALSE]
      BY <2>5 DEF NoRoleWork
    <3>2. QED
      BY <1>3, <2>4, <3>1
  <2>7. QED
    BY <2>2, <2>3, <2>6
<1>5. /\ base \in RolesInPlay /\ base # "keep"
      /\ id \in CustomRoles \union {"none"} /\ id # "keep"
      /\ id # "none" => base = "staff" /\ id = k
  <2>1. CASE k \in SystemRoles
    BY <1>1, <2>1, RolesAssumption, RoleNamesAssumption DEF BaseOf, SystemRoles
  <2>2. CASE k \notin SystemRoles
    BY <1>1, <2>2, RolesAssumption, RoleNamesAssumption DEF BaseOf, SystemRoles
  <2>3. QED
    BY <2>1, <2>2
<1>6. Assigned(w) = [base |-> base, id |-> id]
  BY <1>3, <1>5 DEF Assigned, WrittenOver, Differs
<1>7. /\ w.base \in {base, "keep"} /\ w.id \in {id, "keep"}
      /\ w.op = "assign" /\ w.whom = s /\ w.owner = o /\ ~ w.met
  BY <1>3 DEF Differs
<1>8. w \in RoleWorks
  BY <1>2, <1>3, <1>5, <1>7 DEF RoleWorks, RoleOps
<1>9. ~ w.owner => Given(Resolve(Assigned(w)))
  BY <1>2, <1>4, <1>6, <1>7, GivesWhatSomebodyHas
<1>10. WorkSound(w)
  BY <1>5, <1>6, <1>7, <1>9 DEF WorkSound
<1>11. HasRow(w.id)
  BY <1>4, <1>5, <1>7, KeepIsNoRole DEF HasRow
<1>12. RoleInv'
  BY <1>4, <1>8, <1>10, <1>11, RoleTaken
<1>13. roleWork' = [roleWork EXCEPT ![r] = w] /\ DOMAIN roleWork = RoleReqs
  BY <1>4 DEF TakesOn, RoleInv, RoleTypeOK
<1>14. QED
  BY <1>7, <1>12, <1>13

LEMMA BuiltInKept ==
  ASSUME RoleInv, NEW r \in RoleReqs, CommitBuiltIn(r)
  PROVE  RoleInv'
<1>1. PICK w : w = roleWork[r]
  OBVIOUS
<1>2. /\ w.key \in RolesInPlay /\ edited' = [edited EXCEPT ![w.key] = WrittenOver(w.what, @)]
      /\ custom' = custom /\ holds' = holds /\ roleWork' = Met(r, {})
  BY <1>1 DEF CommitBuiltIn
<1>3. w.what \in PayloadNames \union {"keep", "default"}
  BY <1>1 DEF RoleInv, RoleTypeOK
<1>4. edited' \in [RolesInPlay -> PayloadNames \union {"norow", "default"}]
  BY <1>2, <1>3 DEF WrittenOver, RoleInv, RoleTypeOK
<1>5. /\ custom' \in [CustomRoles -> PayloadNames \union {"none"}]
      /\ holds' \in [Assistants -> [base : RolesInPlay, id : CustomRoles \union {"none"}]]
  BY <1>2 DEF RoleInv, RoleTypeOK
<1>6. \A s \in Assistants : holds'[s].id \in CustomRoles => custom'[holds'[s].id] # "none"
  BY <1>2 DEF RoleInv, HasRow
<1>7. QED
  BY <1>2, <1>4, <1>5, <1>6, RoleCommitted

LEMMA CustomKept ==
  ASSUME RoleInv, NEW r \in RoleReqs, CommitCustom(r)
  PROVE  RoleInv'
<1>1. PICK w : w = roleWork[r]
  OBVIOUS
<1>2. PICK gone : gone = IF w.op = "delete" THEN {w.key} ELSE {}
  OBVIOUS
<1>3. /\ w.key \in CustomRoles /\ edited' = edited /\ holds' = holds /\ roleWork' = Met(r, gone)
  BY <1>1, <1>2 DEF CommitCustom
<1>4. WorkSound(w)
  BY <1>1 DEF RoleInv
<1>5. /\ custom' \in [CustomRoles -> PayloadNames \union {"none"}]
      /\ \A c \in CustomRoles \ gone : custom[c] # "none" => custom'[c] # "none"
      /\ w.op = "delete" => \A s \in Assistants : holds[s].id # w.key
  <2>1. custom \in [CustomRoles -> PayloadNames \union {"none"}] /\ "none" \notin PayloadNames
    BY RoleNamesAssumption DEF RoleInv, RoleTypeOK
  <2>2. CASE w.op = "create" /\ custom' = [custom EXCEPT ![w.key] = w.what]
    <3>1. w.what \in PayloadNames
      BY <1>4, <2>2 DEF WorkSound
    <3>2. QED
      BY <1>3, <2>1, <2>2, <3>1
  <2>3. CASE w.op = "update" /\ custom[w.key] # "none" /\ custom' = [custom EXCEPT ![w.key] = WrittenOver(w.what, @)]
    <3>1. w.what \in PayloadNames \/ w.what = "keep"
      BY <1>4, <2>3 DEF WorkSound
    <3>2. WrittenOver(w.what, custom[w.key]) \in PayloadNames
      BY <1>3, <2>1, <2>3, <3>1 DEF WrittenOver
    <3>3. QED
      BY <1>3, <2>1, <2>3, <3>2
  <2>4. CASE w.op = "delete" /\ ~ InUse(w.key) /\ custom' = [custom EXCEPT ![w.key] = "none"]
    BY <1>2, <1>3, <2>1, <2>4 DEF InUse
  <2>5. QED
    BY <1>1, <2>2, <2>3, <2>4 DEF CommitCustom
<1>6. \A s \in Assistants : holds'[s].id \in CustomRoles => custom'[holds'[s].id] # "none"
  <2>1. ASSUME NEW s \in Assistants, holds'[s].id \in CustomRoles PROVE custom'[holds'[s].id] # "none"
    <3>1. custom[holds[s].id] # "none"
      BY <1>3, <2>1 DEF RoleInv, HasRow
    <3>2. holds[s].id \notin gone
      BY <1>2, <1>5
    <3>3. QED
      BY <1>3, <1>5, <2>1, <3>1, <3>2
  <2>2. QED
    BY <2>1
<1>7. /\ gone \in SUBSET CustomRoles
      /\ edited' \in [RolesInPlay -> PayloadNames \union {"norow", "default"}]
      /\ holds' \in [Assistants -> [base : RolesInPlay, id : CustomRoles \union {"none"}]]
  BY <1>2, <1>3 DEF RoleInv, RoleTypeOK
<1>8. QED
  BY <1>3, <1>5, <1>6, <1>7, RoleCommitted

LEMMA RoleOfKept ==
  ASSUME RoleInv, NEW r \in RoleReqs, CommitRoleOf(r)
  PROVE  RoleInv'
<1>1. PICK w : w = roleWork[r]
  OBVIOUS
<1>2. PICK m : m = Assigned(w)
  OBVIOUS
<1>3. /\ w.op = "assign" /\ w \in RoleWorks /\ HasRow(w.id) /\ WorkSound(w)
  BY <1>1 DEF CommitRoleOf, RoleInv, RoleTypeOK, RoleWorks, RoleOps
<1>4. w.whom \in Assistants
  BY <1>3 DEF WorkSound
<1>5. /\ holds' = [holds EXCEPT ![w.whom] = m] /\ edited' = edited /\ custom' = custom
      /\ roleWork' = Met(r, {})
  BY <1>1, <1>2, <1>4 DEF CommitRoleOf, Assigned, RoleInv, RoleTypeOK
<1>6. holds \in [Assistants -> [base : RolesInPlay, id : CustomRoles \union {"none"}]]
  BY DEF RoleInv, RoleTypeOK
<1>7. m \in [base : RolesInPlay, id : CustomRoles \union {"none"}]
  BY <1>2, <1>3, <1>4, <1>6 DEF Assigned, WrittenOver, RoleWorks
<1>8. HasRow(m.id)
  <2>1. m.id = w.id \/ m.id = holds[w.whom].id
    BY <1>2 DEF Assigned, WrittenOver
  <2>2. HasRow(holds[w.whom].id)
    BY <1>4 DEF RoleInv
  <2>3. QED
    BY <1>3, <2>1, <2>2
<1>9. \A s \in Assistants : holds'[s].id \in CustomRoles => custom'[holds'[s].id] # "none"
  BY <1>4, <1>5, <1>6, <1>8 DEF HasRow, RoleInv
<1>10. /\ edited' \in [RolesInPlay -> PayloadNames \union {"norow", "default"}]
       /\ custom' \in [CustomRoles -> PayloadNames \union {"none"}]
       /\ holds' \in [Assistants -> [base : RolesInPlay, id : CustomRoles \union {"none"}]]
  BY <1>4, <1>5, <1>6, <1>7 DEF RoleInv, RoleTypeOK
<1>11. QED
  BY <1>5, <1>9, <1>10, RoleCommitted

LEMMA DroppedKept ==
  ASSUME RoleInv, NEW r \in RoleReqs, DropRole(r)
  PROVE  RoleInv'
<1>2. /\ edited' = edited /\ custom' = custom /\ holds' = holds
      /\ roleWork' = [roleWork EXCEPT ![r] = NoRoleWork] /\ roleWork \in [RoleReqs -> RoleWorks]
  BY DEF DropRole, RoleInv, RoleTypeOK, RoleWorks, RoleOps
<1>3. RoleTypeOK'
  <2>1. roleWork' \in [RoleReqs -> RoleWorks]
    BY <1>2, NoRoleWorkTyped
  <2>2. QED
    BY <1>2, <2>1 DEF RoleInv, RoleTypeOK, RoleWorks, RoleOps
<1>4. \A s \in Assistants : HasRow(holds[s].id)'
  BY <1>2 DEF RoleInv, HasRow
<1>5. ASSUME NEW q \in RoleReqs PROVE (HasRow(roleWork[q].id) /\ WorkSound(roleWork[q]))'
  <2>1. PICK v : v = roleWork'[q]
    OBVIOUS
  <2>2. HasRow(v.id) /\ WorkSound(v)
    <3>1. CASE q = r
      BY <1>2, <2>1, <3>1, NoRoleWorkTyped, KeepIsNoRole DEF HasRow, WorkSound
    <3>2. CASE q # r
      BY <1>2, <2>1, <3>2 DEF RoleInv
    <3>3. QED
      BY <3>1, <3>2
  <2>3. QED
    BY <1>2, <2>1, <2>2 DEF HasRow, WorkSound, Assigned, Given, Resolve
<1>6. QED
  BY <1>3, <1>4, <1>5 DEF RoleInv

(* What a step does: it keeps the invariant, and a request that it ends    *)
(* has committed, was dropped, or named a role that is deleted.            *)
LEMMA RoleStepKept ==
  ASSUME RoleInv, NEW r \in RoleReqs, RoleStep(r)
  PROVE  RoleInv' /\
         \/ \A q \in RoleReqs : ~ RoleSettled(q)
         \/ UNCHANGED <<edited, custom, holds>>
         \/ CommitBuiltIn(r) \/ CommitCustom(r) \/ CommitRoleOf(r)
<1>1. CASE \E by \in Askers, n \in PayloadNames, k \in RolesInPlay \union CustomRoles :
             (k \in CustomRoles /\ AskCreateRole(r, by, k, n)) \/ AskUpdateRole(r, by, k, n)
  BY <1>1, AskedRoleKept DEF RoleSettled
<1>2. CASE \E by \in Askers, k \in RolesInPlay \union CustomRoles :
             (k \in RolesInPlay /\ AskResetRole(r, by, k)) \/ (k \in CustomRoles /\ AskDeleteRole(r, by, k))
  BY <1>2, AskedGoneKept DEF RoleSettled
<1>3. CASE \E by \in Askers, s \in Assistants, k \in RolesInPlay \union CustomRoles :
             AskAssignRole(r, by, s, k)
  BY <1>3, AskedAssignKept DEF RoleSettled
<1>4. CASE CommitBuiltIn(r)
  BY <1>4, BuiltInKept
<1>5. CASE CommitCustom(r)
  BY <1>5, CustomKept
<1>6. CASE CommitRoleOf(r)
  BY <1>6, RoleOfKept
<1>7. CASE DropRole(r)
  BY <1>7, DroppedKept DEF DropRole
<1>8. QED
  BY <1>1, <1>2, <1>3, <1>4, <1>5, <1>6, <1>7 DEF RoleStep

LEMMA RoleStutters ==
  ASSUME RoleInv, UNCHANGED roleVars
  PROVE  RoleInv'
<1>1. edited' = edited /\ custom' = custom /\ holds' = holds /\ roleWork' = roleWork
  BY DEF roleVars
<1>2. RoleTypeOK' /\ \A s \in Assistants : HasRow(holds[s].id)'
  BY <1>1 DEF RoleInv, RoleTypeOK, HasRow
<1>3. ASSUME NEW q \in RoleReqs PROVE (HasRow(roleWork[q].id) /\ WorkSound(roleWork[q]))'
  <2>1. PICK v : v = roleWork[q]
    OBVIOUS
  <2>2. HasRow(v.id) /\ WorkSound(v)
    BY <2>1 DEF RoleInv
  <2>3. QED
    BY <1>1, <2>1, <2>2 DEF HasRow, WorkSound, Assigned, Given, Resolve
<1>4. QED
  BY <1>2, <1>3 DEF RoleInv

(* The invariant behind RolesKept: a role that is held or given has its    *)
(* row, and a request that nobody overtook grants what some assistant has. *)
THEOREM RoleInvariance == RoleSpec => []RoleInv
<1>1. RoleInv /\ [RoleNext]_roleVars => RoleInv'
  BY RoleStepKept, RoleStutters DEF RoleNext
<1>2. QED
  BY RoleBegins, <1>1, PTL DEF RoleSpec

(* Rows, memberships and requests have their types (role_service.py).      *)
THEOREM RolesTyped == RoleSpec => []RoleTypeOK
<1>1. RoleInv => RoleTypeOK
  BY DEF RoleInv
<1>2. QED
  BY RoleInvariance, <1>1, PTL

(* What everybody ends with, when a request commits that the owner did not *)
(* ask for and nobody overtook.                                            *)
LEMMA BuiltInGives ==
  ASSUME RoleInv, NEW r \in RoleReqs, CommitBuiltIn(r), NEW q \in RoleReqs, RoleSettled(q),
         ~ roleWork[q].owner, ~ roleWork[q].met, roleWork[q].op # "reset", NEW s \in Assistants
  PROVE  Given(Resolve(holds[s])')
<1>1. PICK w : w = roleWork[r]
  OBVIOUS
<1>2. /\ w.key \in RolesInPlay /\ edited' = [edited EXCEPT ![w.key] = WrittenOver(w.what, @)]
      /\ custom' = custom /\ holds' = holds /\ roleWork' = Met(r, {})
  BY <1>1 DEF CommitBuiltIn
<1>3. q = r
  <2>1. SUFFICES ASSUME q # r PROVE FALSE
    OBVIOUS
  <2>2. roleWork'[q] = [roleWork[q] EXCEPT !.met = TRUE]
    BY <1>2, <2>1 DEF Met, RoleSettled
  <2>3. roleWork'[q].op = roleWork[q].op
    BY <2>2 DEF RoleInv, RoleTypeOK
  <2>4. QED
    BY <2>3 DEF RoleSettled
<1>4. w.op \in {"add", "update"} /\ ~ w.owner /\ ~ w.met /\ WorkSound(w)
  BY <1>1, <1>3 DEF CommitBuiltIn, RoleInv
<1>5. \/ w.what = "keep"
      \/ w.what \in PayloadNames /\ Given(w.what)
  BY <1>4 DEF WorkSound
<1>6. edited'[w.key] = edited[w.key] \/ (edited'[w.key] = w.what /\ w.what \in PayloadNames /\ Given(w.what))
  BY <1>2, <1>5 DEF WrittenOver, RoleInv, RoleTypeOK
<1>7. \A k \in RolesInPlay : k # w.key => edited'[k] = edited[k]
  BY <1>2 DEF RoleInv, RoleTypeOK
<1>8. holds[s].base \in RolesInPlay
  BY DEF RoleInv, RoleTypeOK
<1>9. PICK m : m = holds[s]
  OBVIOUS
<1>10. Resolve(holds[s])' = IF m.id # "none" THEN custom[m.id]
                            ELSE IF edited'[m.base] \in PayloadNames THEN edited'[m.base] ELSE m.base
  BY <1>2, <1>9 DEF Resolve
<1>11. Resolve(holds[s])' = Resolve(holds[s]) \/ (Resolve(holds[s])' = w.what /\ Given(w.what))
  BY <1>6, <1>7, <1>8, <1>9, <1>10 DEF Resolve
<1>12. QED
  BY <1>11, HeldIsGiven

LEMMA CustomGives ==
  ASSUME RoleInv, NEW r \in RoleReqs, CommitCustom(r), NEW q \in RoleReqs, RoleSettled(q),
         ~ roleWork[q].owner, ~ roleWork[q].met, roleWork[q].op # "reset", NEW s \in Assistants
  PROVE  Given(Resolve(holds[s])')
<1>1. PICK w : w = roleWork[r]
  OBVIOUS
<1>2. PICK m : m = holds[s]
  OBVIOUS
<1>3. /\ w.key \in CustomRoles /\ edited' = edited /\ holds' = holds
      /\ m.id \in CustomRoles \union {"none"} /\ WorkSound(w)
  BY <1>1, <1>2 DEF CommitCustom, RoleInv, RoleTypeOK
<1>4. Resolve(holds[s])' = IF m.id # "none" THEN custom'[m.id]
                           ELSE IF edited[m.base] \in PayloadNames THEN edited[m.base] ELSE m.base
  BY <1>2, <1>3 DEF Resolve
<1>5. m.id # "none" => m.id \in CustomRoles /\ custom[m.id] # "none"
  BY <1>2, <1>3 DEF RoleInv, HasRow
<1>6. (m.id # "none" => custom'[m.id] = custom[m.id]) => Resolve(holds[s])' = Resolve(holds[s])
  BY <1>2, <1>4 DEF Resolve
<1>7. custom \in [CustomRoles -> PayloadNames \union {"none"}]
  BY DEF RoleInv, RoleTypeOK
<1>8. CASE w.op = "create" /\ custom[w.key] = "none" /\ custom' = [custom EXCEPT ![w.key] = w.what]
  BY <1>5, <1>6, <1>7, <1>8, HeldIsGiven
<1>9. CASE w.op = "delete" /\ ~ InUse(w.key) /\ custom' = [custom EXCEPT ![w.key] = "none"]
  BY <1>2, <1>5, <1>6, <1>7, <1>9, HeldIsGiven DEF InUse
<1>10. CASE w.op = "update" /\ custom' = [custom EXCEPT ![w.key] = WrittenOver(w.what, @)] /\ roleWork' = Met(r, {})
  <2>1. q = r
    <3>1. SUFFICES ASSUME q # r PROVE FALSE
      OBVIOUS
    <3>2. roleWork'[q] = [roleWork[q] EXCEPT !.met = TRUE]
      BY <1>10, <3>1 DEF Met, RoleSettled
    <3>3. roleWork'[q].op = roleWork[q].op
      BY <3>2 DEF RoleInv, RoleTypeOK
    <3>4. QED
      BY <3>3 DEF RoleSettled
  <2>2. w.what = "keep" \/ Given(w.what)
    BY <1>1, <1>3, <1>10, <2>1 DEF WorkSound
  <2>3. custom'[w.key] = custom[w.key] \/ (custom'[w.key] = w.what /\ Given(w.what))
    BY <1>3, <1>7, <1>10, <2>2 DEF WrittenOver
  <2>4. \A c \in CustomRoles : c # w.key => custom'[c] = custom[c]
    BY <1>7, <1>10
  <2>5. Resolve(holds[s])' = Resolve(holds[s]) \/ (Resolve(holds[s])' = w.what /\ Given(w.what))
    BY <1>4, <1>5, <1>6, <2>3, <2>4
  <2>6. QED
    BY <2>5, HeldIsGiven
<1>11. QED
  BY <1>1, <1>8, <1>9, <1>10 DEF CommitCustom

LEMMA RoleOfGives ==
  ASSUME RoleInv, NEW r \in RoleReqs, CommitRoleOf(r)
  PROVE  /\ WholeRoles => WholeRoles' \/ \E q \in RoleReqs : RoleSettled(q) /\ roleWork[q].met
         /\ \A q \in RoleReqs, s \in Assistants :
              RoleSettled(q) /\ ~ roleWork[q].owner /\ ~ roleWork[q].met => Given(Resolve(holds[s])')
<1>1. PICK w : w = roleWork[r]
  OBVIOUS
<1>2. PICK m : m = Assigned(w)
  OBVIOUS
<1>3. w.op = "assign" /\ WorkSound(w) /\ w.whom \in Assistants
  BY <1>1 DEF CommitRoleOf, RoleInv, WorkSound
<1>4. /\ holds' = [holds EXCEPT ![w.whom] = m] /\ edited' = edited /\ custom' = custom
      /\ roleWork' = Met(r, {}) /\ DOMAIN holds = Assistants
  BY <1>1, <1>2, <1>3 DEF CommitRoleOf, Assigned, RoleInv, RoleTypeOK
<1>5. RoleSettled(r)
  BY <1>1, <1>3, <1>4, NoRoleWorkTyped DEF Met, RoleSettled
<1>6. WholeRoles => WholeRoles' \/ \E q \in RoleReqs : RoleSettled(q) /\ roleWork[q].met
  <2>1. CASE w.met
    BY <1>1, <1>5, <2>1
  <2>2. CASE ~ w.met
    <3>1. m.id # "none" => m.base = "staff"
      BY <1>2, <1>3, <2>2 DEF WorkSound
    <3>2. QED
      BY <1>3, <1>4, <3>1 DEF WholeRoles
  <2>3. QED
    BY <2>1, <2>2
<1>7. ASSUME NEW q \in RoleReqs, NEW s \in Assistants, RoleSettled(q), ~ roleWork[q].owner, ~ roleWork[q].met
      PROVE  Given(Resolve(holds[s])')
  <2>1. q = r
    <3>1. SUFFICES ASSUME q # r PROVE FALSE
      OBVIOUS
    <3>2. roleWork'[q] = [roleWork[q] EXCEPT !.met = TRUE]
      BY <1>4, <1>7, <3>1 DEF Met, RoleSettled
    <3>3. roleWork'[q].op = roleWork[q].op
      BY <3>2 DEF RoleInv, RoleTypeOK
    <3>4. QED
      BY <1>7, <3>3 DEF RoleSettled
  <2>2. Given(Resolve(m))
    BY <1>1, <1>2, <1>3, <1>7, <2>1 DEF WorkSound
  <2>3. PICK n : n = holds'[s]
    OBVIOUS
  <2>4. n = m \/ n = holds[s]
    BY <1>4, <2>3
  <2>5. Resolve(holds[s])' = Resolve(n)
    BY <1>4, <2>3 DEF Resolve
  <2>6. QED
    BY <2>2, <2>4, <2>5, HeldIsGiven
<1>8. QED
  BY <1>6, <1>7

(* Nobody but the owner makes anybody able to do what no assistant could,  *)
(* and a membership names one role, but for requests that were overtaken   *)
(* and for resets: role_service.py, create, update, delete and assign.     *)
THEOREM RolesStayKept == RoleSpec => RolesKept
<1>1. ASSUME RoleInv, [RoleNext]_roleVars
      PROVE  [ /\ ExpandIsLeast
               /\ WholeRoles => WholeRoles' \/ \E r \in RoleReqs : RoleSettled(r) /\ roleWork[r].met
               /\ \A r \in RoleReqs :
                    RoleSettled(r) /\ ~ roleWork[r].owner /\ ~ roleWork[r].met /\ roleWork[r].op # "reset" =>
                      \A s \in Assistants : \E b \in Assistants :
                        <<Resolve(holds[s])', Resolve(holds[b])>> \in Within ]_roleVars
  <2>1. CASE UNCHANGED roleVars
    BY <2>1
  <2>2. ASSUME NEW r \in RoleReqs, RoleStep(r)
        PROVE  /\ WholeRoles => WholeRoles' \/ \E q \in RoleReqs : RoleSettled(q) /\ roleWork[q].met
               /\ \A q \in RoleReqs, s \in Assistants :
                    RoleSettled(q) /\ ~ roleWork[q].owner /\ ~ roleWork[q].met /\ roleWork[q].op # "reset" =>
                      Given(Resolve(holds[s])')
    <3>1. CASE CommitRoleOf(r)
      BY <1>1, <3>1, RoleOfGives
    <3>2. CASE CommitBuiltIn(r) \/ CommitCustom(r)
      <4>1. holds' = holds
        BY <3>2 DEF CommitBuiltIn, CommitCustom
      <4>2. WholeRoles => WholeRoles'
        BY <4>1 DEF WholeRoles
      <4>3. QED
        BY <1>1, <3>2, <4>2, BuiltInGives, CustomGives
    <3>3. CASE UNCHANGED <<edited, custom, holds>>
      <4>1. WholeRoles => WholeRoles'
        BY <3>3 DEF WholeRoles
      <4>2. \A s \in Assistants : Resolve(holds[s])' = Resolve(holds[s])
        BY <3>3 DEF Resolve
      <4>3. QED
        BY <1>1, <4>1, <4>2, HeldIsGiven
    <3>4. CASE \A q \in RoleReqs : ~ RoleSettled(q)
      <4>1. holds' = holds \/ CommitRoleOf(r)
        BY <2>2 DEF RoleStep, AskCreateRole, AskUpdateRole, AskResetRole, AskDeleteRole, AskAssignRole,
                    TakesOn, CommitBuiltIn, CommitCustom, DropRole
      <4>2. WholeRoles => WholeRoles' \/ CommitRoleOf(r)
        BY <4>1 DEF WholeRoles
      <4>3. QED
        BY <3>1, <3>4, <4>2
    <3>5. QED
      BY <1>1, <2>2, <3>1, <3>2, <3>3, <3>4, RoleStepKept
  <2>3. QED
    BY <1>1, <2>1, <2>2, ExpandLeast DEF RoleNext, Given
<1>2. QED
  BY RoleInvariance, <1>1, PTL DEF RoleSpec, RolesKept

---------------------------------------------------------------------------
(* Lists of exams, questions and subjects                                  *)

LEMMA ListBegins == ListInit => ListTypeOK
<1> SUFFICES ASSUME ListInit PROVE ListTypeOK
  OBVIOUS
<1>1. clock \in Moments
  BY WindowsAssumption DEF ListInit, Moments
<1>2. itsExam \in [status : Statuses, window : ExamWindows, mine : BOOLEAN]
  BY DEF ListInit, Statuses, Unfinished
<1>3. QED
  BY <1>1, <1>2 DEF ListInit, ListTypeOK

LEMMA ListStepTyped == ListTypeOK /\ [ListNext]_listVars => ListTypeOK'
<1> SUFFICES ASSUME ListTypeOK, [ListNext]_listVars PROVE ListTypeOK'
  OBVIOUS
<1>1. CASE UNCHANGED listVars
  BY <1>1 DEF ListTypeOK, listVars
<1>2. CASE \E t \in Tokens : SignIn(t)
  BY <1>2 DEF ListTypeOK, SignIn
<1>3. CASE ListTick
  BY <1>3, WindowsAssumption DEF ListTypeOK, ListTick, Moments
<1>4. ASSUME NEW s \in Statuses, StatusMoves(s) PROVE ListTypeOK'
  BY <1>4 DEF ListTypeOK, StatusMoves, ExamChanges
<1>5. ASSUME NEW w \in ExamWindows, WindowMoves(w) PROVE ListTypeOK'
  BY <1>5 DEF ListTypeOK, WindowMoves, ExamChanges
<1>6. CASE StaffMoves
  BY <1>6 DEF ListTypeOK, StaffMoves
<1>7. CASE QuestionMoves
  BY <1>7 DEF ListTypeOK, QuestionMoves
<1>8. QED
  BY <1>1, <1>2, <1>3, <1>4, <1>5, <1>6, <1>7 DEF ListNext

(* Whatever the token is, the moment, the exam and the assignments have    *)
(* their types (exam_service.py, subject_service.py).                      *)
THEOREM ListsTyped == ListSpec => []ListTypeOK
BY ListBegins, ListStepTyped, PTL DEF ListSpec

(* A permission reaches no further than the one that it implies.           *)
LEMMA ImpliedReachesAsFar ==
  ASSUME ListTypeOK
  PROVE  /\ \A p \in Permissions : ReachOf(p) \in Reaches
         /\ \A p \in OnExams : ReachOf(p) <= ReachOf("exams.view")
         /\ ReachOf("questions.manage") <= ReachOf("questions.view")
         /\ ReachOf("questions.view") <= ReachOf("subjects.view")
<1>1. PICK g : g = Effective[token]
  OBVIOUS
<1>2. g \in Grants /\ Pass(g) = g
  BY <1>1, EffectiveComplete DEF ListTypeOK, Tokens
<1>3. \A p \in Permissions, q \in Permissions : p \in Implied(q) => g[q] <= g[p]
  BY <1>2, OnePass DEF ImpliedBy
<1>4. \A p \in Permissions : g[p] \in Reaches
  BY <1>2 DEF Grants
<1>5. {"exams.view", "questions.manage", "questions.view", "subjects.view"} \union OnExams \subseteq Permissions
  BY DEF OnExams, Permissions, Scoped
<1>6. ASSUME NEW p \in OnExams PROVE g[p] <= g["exams.view"]
  <2>1. CASE p = "exams.view"
    BY <1>4, <1>5, <2>1 DEF Reaches, AllReach
  <2>2. CASE p # "exams.view"
    <3>1. "exams.view" \in Implied(p)
      BY <2>2 DEF OnExams, Implied
    <3>2. QED
      BY <1>3, <1>5, <3>1
  <2>3. QED
    BY <2>1, <2>2
<1>7. "questions.view" \in Implied("questions.manage") /\ "subjects.view" \in Implied("questions.view")
  BY DEF Implied
<1>8. QED
  BY <1>1, <1>3, <1>4, <1>5, <1>6, <1>7 DEF ReachOf

LEMMA ExamsFound == ListTypeOK => FindsExams
<1> SUFFICES ASSUME ListTypeOK PROVE FindsExams
  OBVIOUS
<1>1. "exams.view" \in Permissions /\ OnExams \subseteq Permissions
  BY DEF OnExams, Permissions, Scoped
<1>2. ReachOf("exams.view") \in {0, OwnReach, AssignedReach, AllReach}
  BY <1>1, ImpliedReachesAsFar DEF Reaches, OwnReach, AssignedReach, AllReach
<1>3. ExamListed <=> MayAct("exams.view")
  BY <1>2 DEF ExamListed, DraftsFor, MayAct, HasPerm, OwnReach, AssignedReach, AllReach
<1>4. ASSUME NEW p \in OnExams, MayAct(p) PROVE MayAct("exams.view")
  <2>1. ReachOf(p) \in {0, OwnReach, AssignedReach, AllReach} /\ ReachOf(p) <= ReachOf("exams.view")
    BY <1>1, ImpliedReachesAsFar DEF Reaches, OwnReach, AssignedReach, AllReach
  <2>2. QED
    BY <1>2, <1>4, <2>1 DEF MayAct, HasPerm, OwnReach, AssignedReach, AllReach
<1>5. QED
  BY <1>3, <1>4 DEF FindsExams

LEMMA QuestionsFound == ListTypeOK => FindsQuestions
<1> SUFFICES ASSUME ListTypeOK PROVE FindsQuestions
  OBVIOUS
<1>1. {"questions.manage", "questions.view", "subjects.view"} \subseteq Permissions
  BY DEF Permissions, Scoped
<1>2. PICK m, v, s : m = ReachOf("questions.manage") /\ v = ReachOf("questions.view") /\ s = ReachOf("subjects.view")
  OBVIOUS
<1>3. m \in 0..AllReach /\ v \in 0..AllReach /\ s \in 0..AllReach /\ m <= v /\ v <= s
  BY <1>1, <1>2, ImpliedReachesAsFar DEF Reaches
<1>4. QuestionListed <=> v > 0 /\ (v = AllReach \/ onTeam) /\ (v # AllReach => ~ inBank \/ bankGiven)
  BY <1>2 DEF QuestionListed, OnSubject, HasPerm
<1>5. QuestionListed <=> MayQuestion("questions.view")
  BY <1>2, <1>4 DEF MayQuestion, OnSubject, HasPerm
<1>6. MayQuestion("questions.manage") => QuestionListed
  BY <1>2, <1>3, <1>4 DEF MayQuestion, OnSubject, HasPerm, AllReach
<1>7. QuestionListed => SubjectListed
  BY <1>2, <1>3, <1>4 DEF SubjectListed, HasPerm, AllReach
<1>8. QED
  BY <1>5, <1>6, <1>7 DEF FindsQuestions

(* Where an exam is, by its status and its times. *)
PhaseAt(x, t) ==
  IF x.status \in Unfinished THEN 1
  ELSE IF x.status = "pending" THEN 2
  ELSE IF x.status \in {"closed", "archived"} THEN 4
  ELSE IF x.window.start > t THEN 2
  ELSE IF x.window.end # Unset /\ x.window.end <= t THEN 4 ELSE 3

LEMMA PhaseFound ==
  ASSUME ListTypeOK, Ordered
  PROVE  PhasesOf = {PhaseAt(itsExam, clock)}
<1>1. PICK x, t, o, c : x = itsExam /\ t = clock /\ o = itsExam.window.start /\ c = itsExam.window.end
  OBVIOUS
<1>2. /\ x.status \in Statuses /\ t \in Nat
      /\ o \in Nat \union {-1} /\ c \in Nat \union {-1} /\ x.window.start = o /\ x.window.end = c
      /\ c = -1 \/ o < c
  BY <1>1, WindowsAssumption DEF ListTypeOK, Ordered, Moments, Unset
<1>3. PhasesOf = {n \in 1..4 : InPhase(Phases[n])}
  BY DEF PhasesOf, Phases
<1>4. /\ InPhase(Phases[1]) <=> x.status \in Unfinished
      /\ InPhase(Phases[2]) <=> x.status = "pending" \/ (x.status \in Running /\ o > t)
      /\ InPhase(Phases[3]) <=> x.status \in Running /\ (o = -1 \/ o <= t) /\ (c = -1 \/ c > t)
      /\ InPhase(Phases[4]) <=> \/ x.status \in {"closed", "archived"}
                                \/ x.status \in Running /\ c # -1 /\ c <= t
  BY <1>1 DEF InPhase, Phases, Unset
<1>5. PICK n : n = PhaseAt(x, t)
  OBVIOUS
<1>6. n \in 1..4 /\ \A k \in 1..4 : InPhase(Phases[k]) <=> k = n
  <2>1. CASE x.status \in Unfinished \union {"pending", "closed", "archived"}
    BY <1>2, <1>4, <1>5, <2>1 DEF PhaseAt, Unfinished, Running, Unset
  <2>2. CASE x.status \in Running /\ o > t
    BY <1>2, <1>4, <1>5, <2>2 DEF PhaseAt, Unfinished, Running, Unset
  <2>3. CASE x.status \in Running /\ o <= t /\ c # -1 /\ c <= t
    BY <1>2, <1>4, <1>5, <2>3 DEF PhaseAt, Unfinished, Running, Unset
  <2>4. CASE x.status \in Running /\ o <= t /\ (c = -1 \/ c > t)
    BY <1>2, <1>4, <1>5, <2>4 DEF PhaseAt, Unfinished, Running, Unset
  <2>5. QED
    BY <1>2, <2>1, <2>2, <2>3, <2>4 DEF Statuses
<1>7. PhasesOf = {n}
  BY <1>3, <1>6
<1>8. QED
  BY <1>1, <1>5, <1>7

LEMMA PhaseIsOne == ListTypeOK => OnePhase
BY PhaseFound, FS_Singleton DEF OnePhase

LEMMA PhaseMovesOn ==
  ASSUME ListTypeOK, ListTypeOK', ListNext, UNCHANGED itsExam, Ordered
  PROVE  \A n \in PhasesOf, m \in PhasesOf' : n <= m
<1>1. PICK x, t, u : x = itsExam /\ t = clock /\ u = clock'
  OBVIOUS
<1>2. t \in Nat /\ u \in Nat /\ t <= u
  BY <1>1, WindowsAssumption
     DEF ListTypeOK, Moments, ListNext, SignIn, ListTick, StatusMoves, WindowMoves, ExamChanges, StaffMoves, QuestionMoves
<1>3. /\ x.window.start \in Nat \union {-1} /\ x.window.end \in Nat \union {-1}
      /\ x.window.end = -1 \/ x.window.start < x.window.end
  BY <1>1, WindowsAssumption DEF ListTypeOK, Ordered, Moments, Unset
<1>4. PhasesOf = {PhaseAt(x, t)}
  BY <1>1, PhaseFound
<1>5. PhasesOf' = {PhaseAt(x, u)}
  <2>1. Ordered'
    BY DEF Ordered
  <2>2. (ListTypeOK /\ Ordered => PhasesOf = {PhaseAt(itsExam, clock)})'
    BY PhaseFound, PTL
  <2>3. QED
    BY <1>1, <2>1, <2>2
<1>6. PhaseAt(x, t) <= PhaseAt(x, u)
  BY <1>2, <1>3 DEF PhaseAt, Unset
<1>7. QED
  BY <1>4, <1>5, <1>6

(* Lists and access agree, an exam is in one phase, and time takes it only *)
(* forward: exam_service.py _list_conditions and _phase_condition beside   *)
(* _assert_can_view, item_service.py, scope_service.py.                    *)
THEOREM ViewsStayKept == ListSpec => ViewsKept
<1>1. ASSUME ListTypeOK, ListTypeOK', [ListNext]_listVars
      PROVE  [UNCHANGED listVars \/ (FindsExams /\ FindsQuestions /\ OnePhase /\ TimeMovesOn)]_listVars
  <2>1. CASE UNCHANGED listVars
    BY <2>1
  <2>2. CASE ListNext
    BY <1>1, <2>2, ExamsFound, QuestionsFound, PhaseIsOne, PhaseMovesOn DEF TimeMovesOn
  <2>3. QED
    BY <1>1, <2>1, <2>2
<1>2. QED
  BY ListsTyped, <1>1, PTL DEF ListSpec, ViewsKept

---------------------------------------------------------------------------
(* The lists of a student                                                  *)

AttemptRows == [status : Ongoing \union Closed, started : Ticks, submitted : Ticks \union {Never}]

(* An attempt lies in the past, and one that is under way was not handed   *)
(* in; no two begin in the same moment.                                    *)
RowSound(t, when) ==
  /\ t \in AttemptRows
  /\ t.started <= when /\ t.submitted <= when
  /\ t.status \in Ongoing => t.submitted = Never

MineInv ==
  /\ MineTypeOK
  /\ \A i \in DOMAIN taken : RowSound(taken[i], now)
  /\ \A i, j \in DOMAIN taken : taken[i].started = taken[j].started => i = j

LEMMA TicksAreNumbers == Ticks \subseteq Nat /\ DayLength \in Nat \ {0} /\ TimeAllowed \in Nat /\ Never = -1
BY MyExamsAssumption DEF Ticks, Never

LEMMA TimesOfRow ==
  ASSUME NEW t \in AttemptRows
  PROVE  t.started \in Nat /\ t.submitted \in Int
<1>1. t.started \in Ticks /\ t.submitted \in Ticks \union {Never}
  BY DEF AttemptRows
<1>2. Ticks \union {Never} \subseteq Int /\ Ticks \subseteq Nat
  BY TicksAreNumbers
<1>3. QED
  BY <1>1, <1>2

LEMMA MineBegins == MineInit => MineInv
<1> SUFFICES ASSUME MineInit PROVE MineInv
  OBVIOUS
<1>1. now \in Ticks /\ window \in Windows /\ allowed \in Limits /\ taken = <<>>
      /\ moved = [start |-> Never, end |-> Never]
  BY MyExamsAssumption DEF MineInit, Ticks
<1>2. MineTypeOK
  BY <1>1 DEF MineTypeOK
<1>3. QED
  BY <1>1, <1>2 DEF MineInv

(* One attempt is replaced by another in its place. *)
LEMMA RowReplaced ==
  ASSUME MineInv, NEW i \in DOMAIN taken, NEW t, RowSound(t, now),
         taken' = [taken EXCEPT ![i] = t], now' = now, window' = window, allowed' = allowed,
         moved' \in [start : Ticks \union {Never}, end : Nat \union {Never}],
         t.started = taken[i].started \/ \A j \in DOMAIN taken : taken[j].started # t.started
  PROVE  MineInv'
<1>1. taken \in Seq(AttemptRows)
  BY DEF MineInv, MineTypeOK, AttemptRows
<1>2. taken' \in Seq(AttemptRows) /\ DOMAIN taken' = DOMAIN taken
  BY <1>1 DEF RowSound
<1>3. taken'[i] = t /\ \A j \in DOMAIN taken : j # i => taken'[j] = taken[j]
  BY <1>1
<1>4. MineTypeOK'
  BY <1>2 DEF MineInv, MineTypeOK, AttemptRows
<1>5. \A j \in DOMAIN taken' : RowSound(taken'[j], now')
  BY <1>2, <1>3 DEF MineInv
<1>6. \A j, k \in DOMAIN taken' : taken'[j].started = taken'[k].started => j = k
  BY <1>2, <1>3 DEF MineInv
<1>7. QED
  BY <1>4, <1>5, <1>6 DEF MineInv

LEMMA FreshIsSound ==
  ASSUME MineInv
  PROVE  RowSound(Fresh, now) /\ Fresh.started = now
BY TicksAreNumbers DEF MineInv, MineTypeOK, RowSound, Fresh, AttemptRows, Ongoing

LEMMA StartKept == MineInv /\ StartAttempt => MineInv'
<1> SUFFICES ASSUME MineInv, StartAttempt PROVE MineInv'
  OBVIOUS
<1>1. /\ now' = now /\ window' = window /\ moved' = moved /\ allowed' = allowed
      /\ \A j \in DOMAIN taken : taken[j].started # now
  BY DEF StartAttempt, NoTwoAtOnce
<1>2. PICK f : f = Fresh /\ RowSound(f, now) /\ f.started = now
  BY FreshIsSound
<1>3. moved' \in [start : Ticks \union {Never}, end : Nat \union {Never}]
  BY <1>1 DEF MineInv, MineTypeOK
<1>4. ASSUME NEW i \in DOMAIN taken, taken' = [taken EXCEPT ![i] = f]
      PROVE  MineInv'
  BY <1>1, <1>2, <1>3, <1>4, RowReplaced
<1>5. ASSUME taken' = Append(taken, f)
      PROVE  MineInv'
  <2>1. taken \in Seq(AttemptRows) /\ f \in AttemptRows
    BY <1>2 DEF MineInv, MineTypeOK, AttemptRows, RowSound
  <2>2. taken' \in Seq(AttemptRows) /\ Len(taken') = Len(taken) + 1 /\ Len(taken) \in Nat
        /\ DOMAIN taken' = 1..Len(taken') /\ DOMAIN taken = 1..Len(taken)
    BY <1>5, <2>1
  <2>3. \A j \in DOMAIN taken' : IF j = Len(taken') THEN taken'[j] = f
                                  ELSE j \in DOMAIN taken /\ taken'[j] = taken[j]
    BY <1>5, <2>1, <2>2
  <2>4. MineTypeOK'
    BY <1>1, <2>2 DEF MineInv, MineTypeOK, AttemptRows
  <2>5. \A j \in DOMAIN taken' : RowSound(taken'[j], now')
    BY <1>1, <1>2, <2>3 DEF MineInv
  <2>6. \A j, k \in DOMAIN taken' : taken'[j].started = taken'[k].started => j = k
    BY <1>1, <1>2, <2>3 DEF MineInv
  <2>7. QED
    BY <2>4, <2>5, <2>6 DEF MineInv
<1>6. QED
  BY <1>2, <1>4, <1>5 DEF StartAttempt

LEMMA FinishKept ==
  ASSUME MineInv, NEW i \in DOMAIN taken, NEW at \in Ticks, Finish(i, at)
  PROVE  MineInv'
<1>1. PICK t : t = [taken[i] EXCEPT !.status = "closed", !.submitted = at]
  OBVIOUS
<1>2. taken[i] \in AttemptRows /\ RowSound(taken[i], now) /\ now \in Nat
  BY TicksAreNumbers DEF MineInv, RowSound, MineTypeOK
<1>3. at <= now
  BY <1>2, TicksAreNumbers DEF Finish, AttemptRows
<1>4. RowSound(t, now) /\ t.started = taken[i].started
  BY <1>1, <1>2, <1>3 DEF RowSound, AttemptRows, Ongoing, Closed
<1>5. /\ taken' = [taken EXCEPT ![i] = t] /\ now' = now /\ window' = window /\ moved' = moved
      /\ allowed' = allowed
  BY <1>1 DEF Finish
<1>6. moved' \in [start : Ticks \union {Never}, end : Nat \union {Never}]
  BY <1>5 DEF MineInv, MineTypeOK
<1>7. QED
  BY <1>4, <1>5, <1>6, RowReplaced

LEMMA ResetKept ==
  ASSUME MineInv, NEW i \in DOMAIN taken, NEW when \in Ticks \union {Never}, ResetTo(i, when)
  PROVE  MineInv'
<1>1. PICK t : t = Clears(taken[i])
  OBVIOUS
<1>2. taken[i] \in AttemptRows /\ RowSound(taken[i], now) /\ now \in Nat
  BY TicksAreNumbers DEF MineInv, RowSound, MineTypeOK
<1>3. RowSound(t, now) /\ t.started = taken[i].started
  <2>1. PICK u : u = taken[i]
    OBVIOUS
  <2>2. t = [status |-> "reset", started |-> u.started, submitted |-> Never]
    BY <1>1, <1>2, <2>1 DEF Clears, AttemptRows
  <2>3. QED
    BY <1>2, <2>1, <2>2, TicksAreNumbers DEF RowSound, AttemptRows, Ongoing
<1>4. taken' = [taken EXCEPT ![i] = t] /\ now' = now /\ window' = window /\ allowed' = allowed
  BY <1>1 DEF ResetTo
<1>5. moved' \in [start : Ticks \union {Never}, end : Nat \union {Never}]
  BY TicksAreNumbers DEF MineInv, MineTypeOK, ResetTo
<1>6. QED
  BY <1>3, <1>4, <1>5, RowReplaced

LEMMA MineStepKept == MineInv /\ [MineNext]_mineVars => MineInv'
<1> SUFFICES ASSUME MineInv, [MineNext]_mineVars PROVE MineInv'
  OBVIOUS
<1>1. CASE UNCHANGED mineVars
  BY <1>1 DEF mineVars, MineInv, MineTypeOK
<1>2. CASE StartAttempt
  BY <1>2, StartKept
<1>3. CASE \E i \in DOMAIN taken, t \in Ticks : Finish(i, t)
  BY <1>3, FinishKept
<1>4. CASE \E i \in DOMAIN taken, t \in Ticks \union {Never} : ResetTo(i, t)
  BY <1>4, ResetKept
<1>5. ASSUME NEW w \in Windows, NEW n \in Limits, ChangeExam(w, n) PROVE MineInv'
  BY <1>5 DEF ChangeExam, MineInv, MineTypeOK
<1>6. CASE MineTick
  <2>1. /\ now \in Nat /\ now' = now + 1 /\ now' \in Ticks /\ taken' = taken
        /\ window' = window /\ moved' = moved /\ allowed' = allowed
    BY <1>6, MyExamsAssumption DEF MineTick, MineInv, MineTypeOK, Ticks
  <2>2. PICK n : n = now'
    OBVIOUS
  <2>3. ASSUME NEW i \in DOMAIN taken PROVE RowSound(taken[i], n)
    <3>1. PICK t : t = taken[i] /\ RowSound(t, now)
      BY DEF MineInv
    <3>2. t.started \in Int /\ t.submitted \in Int
      BY <3>1, TimesOfRow DEF RowSound
    <3>3. QED
      BY <2>1, <2>2, <3>1, <3>2 DEF RowSound
  <2>4. QED
    BY <2>1, <2>2, <2>3 DEF MineInv, MineTypeOK
<1>7. QED
  BY <1>1, <1>2, <1>3, <1>4, <1>5, <1>6 DEF MineNext, MineInv, MineTypeOK

(* The invariant behind MyExamsKept: attempts begin one after another, and *)
(* an attempt that goes on was not handed in (attempt_service.py start,    *)
(* _finalize_submission, reset_attempt).                                   *)
THEOREM MineInvariance == MineSpec => []MineInv
BY MineBegins, MineStepKept, PTL DEF MineSpec

(* The exam, its assignment and the attempts on it have their types.       *)
THEOREM MineTyped == MineSpec => []MineTypeOK
<1>1. MineInv => MineTypeOK
  BY DEF MineInv
<1>2. QED
  BY MineInvariance, <1>1, PTL

(* A day begins at or before each of its moments, and ends after it.       *)
LEMMA DaysAre ==
  ASSUME NEW d \in Nat \ {0}, NEW n \in Nat
  PROVE  /\ (n \div d) * d \in Nat /\ ((n + 1) \div d) * d \in Nat
         /\ (n \div d) * d <= n /\ n < (n \div d) * d + d
         /\ (n \div d) * d <= ((n + 1) \div d) * d
<1>1. PICK q, r : q = n \div d /\ r = (n + 1) \div d
  OBVIOUS
<1>2. q \in Nat /\ r \in Nat
  BY <1>1
<1>3. PICK a, b : a = q * d /\ b = r * d
  OBVIOUS
<1>4. a \in Nat /\ b \in Nat
  BY <1>2, <1>3
<1>5. a <= n /\ n < a + d
  <2>1. n = d * q + (n % d) /\ n % d \in 0..(d - 1)
    BY <1>1
  <2>2. d * q = a
    BY <1>2, <1>3
  <2>3. QED
    BY <1>4, <2>1, <2>2
<1>6. n + 1 < b + d
  <2>1. n + 1 = d * r + ((n + 1) % d) /\ (n + 1) % d \in 0..(d - 1)
    BY <1>1
  <2>2. d * r = b
    BY <1>2, <1>3
  <2>3. QED
    BY <1>4, <2>1, <2>2
<1>7. a <= b
  <2>1. CASE q <= r
    <3>1. PICK k \in Nat : r = q + k
      <4>1. r - q \in Nat /\ r = q + (r - q)
        BY <1>2, <2>1
      <4>2. QED
        BY <4>1
    <3>2. r * d = q * d + k * d
      BY <1>2, <3>1
    <3>3. k * d \in Nat
      BY <3>1
    <3>4. QED
      BY <1>3, <1>4, <3>2, <3>3
  <2>2. CASE r < q
    <3>1. PICK k \in Nat : q = r + 1 + k
      <4>1. q - r - 1 \in Nat /\ q = r + 1 + (q - r - 1)
        BY <1>2, <2>2
      <4>2. QED
        BY <4>1
    <3>2. q * d = r * d + d + k * d
      BY <1>2, <3>1
    <3>3. k * d \in Nat
      BY <3>1
    <3>4. QED
      BY <1>3, <1>4, <1>5, <1>6, <3>2, <3>3
  <2>3. QED
    BY <1>2, <2>1, <2>2
<1>8. QED
  BY <1>1, <1>3, <1>4, <1>5, <1>7

(* Of attempts that begin at different moments one is the last.            *)
LEMMA LastIsThere ==
  ASSUME NEW is, is # {}, NEW when, \A i \in is : when[i] \in Ticks
  PROVE  LastBy(is, when) \in is /\ \A j \in is : when[j] <= when[LastBy(is, when)]
<1> DEFINE Left == {Horizon - when[i] : i \in is}
<1>1. Horizon \in Nat /\ \A i \in is : when[i] \in Nat /\ when[i] <= Horizon
  BY MyExamsAssumption DEF Ticks
<1>2. Left \subseteq Nat /\ Left # {}
  BY <1>1
<1>3. PICK m \in Left : \A k \in Left : m <= k
  <2> HIDE DEF Left
  <2>1. QED
    BY <1>2, LeastNumber
<1>4. PICK i \in is : m = Horizon - when[i]
  BY <1>3
<1>5. ASSUME NEW j \in is PROVE when[j] <= when[i]
  <2>1. m <= Horizon - when[j]
    BY <1>3
  <2>2. QED
    BY <1>1, <1>4, <2>1
<1>6. QED
  BY <1>4, <1>5 DEF LastBy

(* Which attempt a row names does not depend on the time that is compared. *)
LEMMA SameLast ==
  ASSUME MineInv
  PROVE  Among({"reset"}) # {} =>
           LastBy(Among({"reset"}), When) = LastBy(Among({"reset"}), StartedAt)
<1> SUFFICES ASSUME Among({"reset"}) # {}
             PROVE  LastBy(Among({"reset"}), When) = LastBy(Among({"reset"}), StartedAt)
  OBVIOUS
<1>1. PICK is : is = Among({"reset"})
  OBVIOUS
<1>2. PICK u, v : u = When /\ v = StartedAt
  OBVIOUS
<1>3. \A i \in is : i \in DOMAIN taken /\ taken[i].status = "reset" /\ v[i] = taken[i].started /\ v[i] \in Ticks
  BY <1>1, <1>2 DEF Among, StartedAt, MineInv, RowSound, AttemptRows
<1>4. \A i \in is : u[i] = v[i]
  BY <1>2, <1>3 DEF When, StartedAt, SubmittedAt, OrElse, MineInv, RowSound, Ongoing
<1>5. PICK a, b : a = LastBy(is, u) /\ b = LastBy(is, v)
  OBVIOUS
<1>6. /\ a \in is /\ \A j \in is : u[j] <= u[a]
      /\ b \in is /\ \A j \in is : v[j] <= v[b]
  BY <1>1, <1>3, <1>4, <1>5, LastIsThere
<1>7. v[a] <= v[b] /\ v[b] <= v[a] /\ v[a] \in Nat /\ v[b] \in Nat
  BY <1>3, <1>4, <1>6, TicksAreNumbers
<1>8. v[a] = v[b]
  BY <1>7
<1>9. a = b
  BY <1>3, <1>6, <1>8 DEF MineInv
<1>10. QED
  BY <1>1, <1>2, <1>5, <1>9

LEMMA UsedUpIsNumber ==
  ASSUME MineInv
  PROVE  UsedUp \in Nat /\ (taken = <<>> => UsedUp = 0)
<1>1. DOMAIN taken = 1..Len(taken) /\ Len(taken) \in Nat
  BY DEF MineInv, MineTypeOK
<1>2. IsFiniteSet(DOMAIN taken)
  BY <1>1, FS_Interval
<1>3. IsFiniteSet(DOMAIN taken \ Among({"reset"}))
  BY <1>2, FS_Subset
<1>4. taken = <<>> => DOMAIN taken \ Among({"reset"}) = {}
  OBVIOUS
<1>5. QED
  BY <1>3, <1>4, FS_CardinalityType, FS_EmptySet DEF UsedUp

LEMMA OffersAre == MineInv /\ allowed # 0 => OffersKept
<1> SUFFICES ASSUME MineInv, allowed # 0 PROVE OffersKept
  OBVIOUS
<1>1. \A i \in DOMAIN taken : i \in Among({"started"}) => i \notin Among({"reset"})
  BY DEF Among
<1>2. ASSUME NEW i \in DOMAIN taken
      PROVE  InProgress(i) /\ InWindow <=> GoesOn(i) \/ StartsOver(i)
  BY SameLast DEF InProgress, GoesOn, StartsOver
<1>3. ASSUME NEW i \in DOMAIN taken
      PROVE  Restart(i) /\ InWindow <=> StartsOver(i)
  BY <1>1, SameLast DEF Restart, InProgress, StartsOver
<1>4. CanRetake \/ (Untouched /\ InWindow) <=> StartsNew
  <2>1. CASE taken = <<>>
    <3>1. Among(Ongoing) = {} /\ Among(Closed) = {}
      BY <2>1 DEF Among
    <3>2. Limit \in Nat \ {0}
      BY MyExamsAssumption DEF Limit, MineInv, MineTypeOK
    <3>3. QED
      BY <2>1, <3>1, <3>2, UsedUpIsNumber DEF CanRetake, Untouched, StartsNew
  <2>2. CASE taken # <<>>
    <3>1. PICK i \in DOMAIN taken : TRUE
      BY <2>2 DEF MineInv, MineTypeOK
    <3>2. taken[i].status \in Ongoing \union Closed
      BY <3>1 DEF MineInv, RowSound, AttemptRows
    <3>3. i \in Among(Ongoing) \/ i \in Among(Closed)
      BY <3>1, <3>2 DEF Among
    <3>4. QED
      BY <2>2, <3>3 DEF CanRetake, Untouched, StartsNew
  <2>3. QED
    BY <2>1, <2>2
<1>5. QED
  BY <1>2, <1>3, <1>4 DEF OffersKept

(* Times on the lists, as numbers. *)
LEMMA TimesAre ==
  ASSUME MineInv
  PROVE  /\ now \in Nat /\ DayLength \in Nat /\ DayStart \in Nat
         /\ DayStart <= now /\ now < DayStart + DayLength
         /\ Opens \in Int /\ Closes \in Int
<1>1. now \in Nat
  BY TicksAreNumbers DEF MineInv, MineTypeOK
<1>2. /\ window.start \in Int /\ window.end \in Int
      /\ moved.start \in Int /\ moved.end \in Int
  <2>1. /\ window \in [start : Ticks \union {Never}, end : Ticks \union {Never}]
        /\ moved \in [start : Ticks \union {Never}, end : Nat \union {Never}]
    BY MyExamsAssumption DEF MineInv, MineTypeOK
  <2>2. Ticks \union {Never} \subseteq Int /\ Nat \union {Never} \subseteq Int
    BY TicksAreNumbers
  <2>3. QED
    BY <2>1, <2>2
<1>3. QED
  BY <1>1, <1>2, TicksAreNumbers, DaysAre DEF DayStart, Opens, Closes, OrElse

LEMMA ListsAre == MineInv /\ allowed # 0 => ListsKept
<1> SUFFICES ASSUME MineInv, allowed # 0 PROVE ListsKept
  OBVIOUS
<1>1. ASSUME StartAccepts PROVE SetForToday
  <2>1. CASE StartsNew
    <3>1. UsedUp < allowed /\ UsedUp \in Nat /\ allowed \in Nat
      BY <2>1, UsedUpIsNumber, MyExamsAssumption DEF StartsNew, Limit, MineInv, MineTypeOK
    <3>2. ~ DoneBefore
      BY <3>1 DEF DoneBefore
    <3>3. TouchesDay
      BY <2>1, TimesAre DEF StartsNew, InWindow, TouchesDay
    <3>4. QED
      BY <3>2, <3>3 DEF SetForToday
  <2>2. CASE \E i \in DOMAIN taken : GoesOn(i) \/ StartsOver(i)
    <3>1. Among(Ongoing) # {}
      BY <2>2 DEF GoesOn, StartsOver, Among, Ongoing
    <3>2. QED
      BY <3>1 DEF ActiveToday, DoneBefore, SetForToday
  <2>3. QED
    BY <1>1, <2>1, <2>2 DEF StartAccepts
<1>2. ~ (SetForToday /\ IsPast)
  BY TimesAre DEF SetForToday, IsPast, TouchesDay
<1>3. ~ SetForToday /\ ~ IsPast => Opens >= DayStart + DayLength
  BY TimesAre DEF SetForToday, IsPast, TouchesDay, DoneBefore
<1>4. QED
  BY <1>1, <1>2, <1>3 DEF ListsKept

LEMMA PastStays == MineInv /\ MineNext /\ allowed # 0 => PastKept
<1> SUFFICES ASSUME MineInv, MineNext, allowed # 0, IsPast, UNCHANGED <<window, moved, allowed>>,
                    Among({"reset"})' = {}
             PROVE  IsPast'
  BY DEF PastKept
<1>1. Among(Ongoing) = {} /\ ~ ActiveToday
  BY DEF IsPast, ActiveToday
<1>2. \A i \in DOMAIN taken : taken[i].status \notin Ongoing
  BY <1>1 DEF Among
<1>3. ~ StartAttempt
  <2>1. ~ StartAccepts
    BY ListsAre DEF ListsKept
  <2>2. QED
    BY <2>1 DEF StartAttempt, StartAccepts
<1>4. \A i \in DOMAIN taken, t \in Ticks : ~ Finish(i, t)
  BY <1>2 DEF Finish, Ongoing
<1>5. ASSUME NEW i \in DOMAIN taken, NEW t \in Ticks \union {Never}, ResetTo(i, t) PROVE FALSE
  <2>1. taken' = [taken EXCEPT ![i] = Clears(taken[i])] /\ DOMAIN taken' = DOMAIN taken
    BY <1>5 DEF ResetTo
  <2>2. taken'[i].status = "reset"
    BY <2>1 DEF Clears, MineInv, RowSound, AttemptRows
  <2>3. QED
    BY <2>1, <2>2 DEF Among
<1>6. taken' = taken /\ (now' = now \/ (now \in Nat /\ now' = now + 1))
  BY <1>3, <1>4, <1>5, TimesAre DEF MineNext, ChangeExam, MineTick
<1>7. PICK d, e, n : d = DayStart /\ e = DayStart' /\ n = now
  OBVIOUS
<1>8. /\ d \in Nat /\ e \in Nat /\ d <= e /\ n \in Nat /\ d <= n /\ n < d + DayLength /\ DayLength \in Nat
      /\ ThisDay = d..(d + DayLength - 1) /\ ThisDay' = e..(e + DayLength - 1)
  <2>1. n \in Nat /\ d \in Nat /\ d <= n /\ n < d + DayLength /\ DayLength \in Nat \ {0}
    BY <1>7, TimesAre, TicksAreNumbers
  <2>2. d = (n \div DayLength) * DayLength
    BY <1>7 DEF DayStart
  <2>3. PICK m : m = now'
    OBVIOUS
  <2>4. e = (m \div DayLength) * DayLength /\ m \in {n, n + 1}
    BY <1>6, <1>7, <2>3 DEF DayStart
  <2>5. e \in Nat /\ d <= e
    BY <2>1, <2>2, <2>4, DaysAre
  <2>6. QED
    BY <1>7, <2>1, <2>5 DEF ThisDay
<1>9. UNCHANGED <<Opens, Closes, StartedAt, SubmittedAt, UsedUp>> /\ Among(Ongoing)' = {}
  BY <1>1, <1>6 DEF Opens, Closes, StartedAt, SubmittedAt, UsedUp, Among
<1>10. \A i \in DOMAIN taken : {StartedAt[i], SubmittedAt[i]} \intersect ThisDay' = {}
  <2>1. ASSUME NEW i \in DOMAIN taken, NEW x \in {StartedAt[i], SubmittedAt[i]} PROVE x \notin ThisDay'
    <3>1. x \in Int /\ x <= n
      BY <1>7, <2>1, TimesOfRow DEF StartedAt, SubmittedAt, MineInv, RowSound
    <3>2. x \notin ThisDay
      BY <1>1 DEF ActiveToday
    <3>3. QED
      BY <1>8, <3>1, <3>2
  <2>2. QED
    BY <2>1
<1>11. ~ ActiveToday'
  BY <1>6, <1>9, <1>10 DEF ActiveToday
<1>12. CASE Closes # Never /\ Closes < DayStart
  <2>1. Closes' # Never /\ Closes' < DayStart'
    BY <1>7, <1>8, <1>9, <1>12, TimesAre
  <2>2. QED
    BY <1>11, <2>1 DEF IsPast
<1>13. CASE DoneBefore
  <2>1. UsedUp' >= allowed' /\ (Opens' = Never \/ Opens' < DayStart')
    BY <1>7, <1>8, <1>9, <1>13, TimesAre DEF DoneBefore
  <2>2. QED
    BY <1>11, <2>1 DEF IsPast, DoneBefore
<1>14. QED
  BY <1>12, <1>13 DEF IsPast

(* What the lists offer is what start() does, an exam is on one list or    *)
(* none, and none comes back by itself (exam_service.py                    *)
(* get_my_assignments, get_my_past_assignments; attempt_service.py start). *)
THEOREM MyExamsStayKept == MineSpec => MyExamsKept
<1>1. ASSUME MineInv, [MineNext]_mineVars
      PROVE  [UNCHANGED mineVars \/ allowed = 0 \/ (OffersKept /\ ListsKept /\ PastKept)]_mineVars
  BY <1>1, OffersAre, ListsAre, PastStays
<1>2. QED
  BY MineInvariance, <1>1, PTL DEF MineSpec, MyExamsKept

---------------------------------------------------------------------------
(* The marking queue                                                       *)

(* On a script that was handed in, only a written answer is unmarked.      *)
OnlyWrittenWaits == \A s \in Submitted, q \in Asked :
  answer[s][q] \in Unmarked => q \in written

QueueInv == QueueTypeOK /\ OnlyWrittenWaits

LEMMA OutcomesAre ==
  ASSUME NEW q \in Asked, NEW what \in Answers
  PROVE  Outcomes(q, what) \subseteq Answers
         /\ \A x \in Outcomes(q, what) : x \in Unmarked => q \in written
BY DEF Outcomes, Answers, Unmarked

LEMMA QueueBegins == QueueInit => QueueInv
<1> SUFFICES ASSUME QueueInit PROVE QueueInv
  OBVIOUS
<1>1. NoRows \in [Asked -> Answers]
  BY DEF NoRows, Answers
<1>2. QueueTypeOK
  BY <1>1 DEF QueueInit, QueueTypeOK
<1>3. Submitted = {}
  BY DEF QueueInit, Submitted
<1>4. QED
  BY <1>2, <1>3 DEF QueueInv, OnlyWrittenWaits

(* One answer is replaced, on a script that is open or by one that waits   *)
(* only if a person is to mark it.                                         *)
LEMMA AnswerReplaced ==
  ASSUME QueueInv, NEW s \in Scripts, NEW q \in Asked, NEW x \in Answers,
         answer' = [answer EXCEPT ![s][q] = x],
         script[s] # "open" /\ x \in Unmarked => q \in written,
         UNCHANGED <<asked, script>>, lateOne' \in [Scripts -> SUBSET Asked]
  PROVE  QueueInv'
<1>1. UNCHANGED <<written, draft, paper>>
  BY DEF asked
<1>2. answer \in [Scripts -> [Asked -> Answers]]
  BY DEF QueueInv, QueueTypeOK
<1>3. answer' \in [Scripts -> [Asked -> Answers]]
      /\ \A t \in Scripts, p \in Asked : answer'[t][p] = IF t = s /\ p = q THEN x ELSE answer[t][p]
  BY <1>2
<1>4. QED
  BY <1>1, <1>3 DEF QueueInv, QueueTypeOK, OnlyWrittenWaits, Submitted

LEMMA HandedIn ==
  ASSUME QueueInv, NEW s \in Scripts, HandIn(s)
  PROVE  QueueInv'
<1>1. PICK scored \in [Asked -> Answers] :
        /\ \A q \in Asked : scored[q] \in
             IF q \notin RowsOf(s) THEN {"norow"}
             ELSE IF q \in paper THEN Outcomes(q, answer[s][q]) ELSE {"auto"}
        /\ answer' = [answer EXCEPT ![s] = scored]
  BY DEF HandIn
<1>2. /\ answer \in [Scripts -> [Asked -> Answers]] /\ UNCHANGED <<written, draft, paper, lateOne>>
      /\ script' = [script EXCEPT ![s] = "closed"] /\ script \in [Scripts -> {"open", "closed", "reset"}]
  BY DEF HandIn, asked, QueueInv, QueueTypeOK
<1>3. \A q \in Asked : scored[q] \in Unmarked => q \in written
  BY <1>1, <1>2, OutcomesAre DEF Unmarked
<1>4. answer' \in [Scripts -> [Asked -> Answers]]
      /\ \A t \in Scripts, q \in Asked : answer'[t][q] = IF t = s THEN scored[q] ELSE answer[t][q]
  BY <1>1, <1>2
<1>5. script' \in [Scripts -> {"open", "closed", "reset"}]
      /\ \A t \in Scripts : t # s => script'[t] = script[t]
  BY <1>2
<1>6. QED
  BY <1>2, <1>3, <1>4, <1>5 DEF QueueInv, QueueTypeOK, OnlyWrittenWaits, Submitted

LEMMA QueueStays ==
  ASSUME QueueInv, [QueueNext]_queueVars
  PROVE  QueueInv'
<1>0. /\ answer \in [Scripts -> [Asked -> Answers]] /\ lateOne \in [Scripts -> SUBSET Asked]
      /\ script \in [Scripts -> {"open", "closed", "reset"}] /\ paper \subseteq Asked
  BY DEF QueueInv, QueueTypeOK
<1>1. ASSUME NEW s \in Scripts, NEW q \in Asked, NEW what \in Unmarked, SaveAnswer(s, q, what)
      PROVE  QueueInv'
  BY <1>0, <1>1, AnswerReplaced DEF SaveAnswer, Answers
<1>2. ASSUME NEW s \in Scripts, NEW q \in Asked, LateArrives(s, q)
      PROVE  QueueInv'
  BY <1>0, <1>2 DEF LateArrives, asked, QueueInv, QueueTypeOK, OnlyWrittenWaits, Submitted
<1>3. ASSUME NEW s \in Scripts, NEW q \in Asked, DecideLate(s, q)
      PROVE  QueueInv'
  <2>1. lateOne' \in [Scripts -> SUBSET Asked] /\ UNCHANGED <<asked, script>>
    BY <1>0, <1>3 DEF DecideLate
  <2>2. CASE UNCHANGED answer
    BY <2>1, <2>2 DEF asked, QueueInv, QueueTypeOK, OnlyWrittenWaits, Submitted
  <2>3. CASE \E what \in Unmarked, scored \in Answers :
               scored \in Outcomes(q, what) /\ answer' = [answer EXCEPT ![s][q] = scored]
    <3>1. PICK what \in Unmarked, scored \in Answers :
                 scored \in Outcomes(q, what) /\ answer' = [answer EXCEPT ![s][q] = scored]
      BY <2>3
    <3>2. what \in Answers
      BY DEF Answers
    <3>3. scored \in Unmarked => q \in written
      BY <3>1, <3>2, OutcomesAre
    <3>4. QED
      BY <2>1, <3>1, <3>3, AnswerReplaced
  <2>4. QED
    BY <1>3, <2>2, <2>3 DEF DecideLate
<1>4. ASSUME NEW s \in Scripts, NEW q \in Asked, Review(s, q)
      PROVE  QueueInv'
  <2>1. "marked" \in Answers /\ "marked" \notin Unmarked
    BY DEF Answers, Unmarked
  <2>2. QED
    BY <1>0, <1>4, <2>1, AnswerReplaced DEF Review
<1>5. ASSUME NEW s \in Scripts, GiveBack(s)
      PROVE  QueueInv'
  BY <1>0, <1>5
  DEF GiveBack, asked, QueueInv, QueueTypeOK, OnlyWrittenWaits, Submitted, NoRows, Answers
<1>6. ASSUME NEW s \in Scripts, SitAgain(s)
      PROVE  QueueInv'
  BY <1>0, <1>6 DEF SitAgain, asked, QueueInv, QueueTypeOK, OnlyWrittenWaits, Submitted
<1>7. CASE ToAndFro
  BY <1>7 DEF ToAndFro, QueueInv, QueueTypeOK, OnlyWrittenWaits, Submitted
<1>8. ASSUME NEW q \in Asked, ChangePaper(q)
      PROVE  QueueInv'
  BY <1>0, <1>8 DEF ChangePaper, QueueInv, QueueTypeOK, OnlyWrittenWaits, Submitted
<1>9. CASE UNCHANGED queueVars
  BY <1>9 DEF queueVars, asked, QueueInv, QueueTypeOK, OnlyWrittenWaits, Submitted
<1>10. QED
  BY <1>1, <1>2, <1>3, <1>4, <1>5, <1>6, <1>7, <1>8, <1>9, HandedIn DEF QueueNext

LEMMA QueuesAgree == QueueInv => QueueAgrees
<1> SUFFICES ASSUME QueueInv PROVE QueueAgrees
  OBVIOUS
<1> USE DEF QueueInv, QueueTypeOK, OnlyWrittenWaits, OnQueue, Answered, PendingOf, ScriptPending,
            Submitted, RowsOf, Unmarked, Awaiting, Undecided, MayMark
<1>1. WaitingScripts = {s \in Submitted : ScriptPending(s) # {}}
  <2>1. ASSUME NEW s
        PROVE  s \in WaitingScripts <=> s \in Submitted /\ ScriptPending(s) # {}
    BY DEF WaitingScripts
  <2>2. QED
    BY <2>1
<1>2. ASSUME NEW s \in Submitted
      PROVE  /\ ScriptPending(s) = {q \in OnQueue : s \in PendingOf(q)}
             /\ ScriptPending(s) = Undecided(s)
             /\ \A q \in ScriptPending(s) : MayMark(s, q)
             /\ RowsOf(s) \subseteq paper => ScriptPending(s) = Awaiting(s)
  OBVIOUS
<1>3. QED
  BY <1>1, <1>2 DEF QueueAgrees

(* An answer that waits is replaced only by a person's mark or a decision. *)
LEMMA MarkedLeave ==
  ASSUME QueueInv, QueueNext
  PROVE  LeavesMarked
<1> SUFFICES ASSUME NEW q \in OnQueue, NEW s \in Scripts, s \in PendingOf(q), s \notin PendingOf(q)'
             PROVE  \/ s \in MarkedOf(q)'
                    \/ q \in lateOne[s] \ lateOne'[s] \/ script'[s] = "reset" \/ q \notin paper'
  BY DEF LeavesMarked
<1>0. /\ answer \in [Scripts -> [Asked -> Answers]] /\ lateOne \in [Scripts -> SUBSET Asked]
      /\ script \in [Scripts -> {"open", "closed", "reset"}] /\ q \in Asked
      /\ script[s] = "closed" /\ answer[s][q] \in Unmarked
      /\ ~ (script'[s] = "closed" /\ answer'[s][q] \in Unmarked)
  BY DEF QueueInv, QueueTypeOK, OnQueue, PendingOf, Answered, Submitted, RowsOf, Unmarked
<1>1. ASSUME NEW t \in Scripts, NEW p \in Asked, NEW what \in Unmarked, SaveAnswer(t, p, what)
      PROVE  FALSE
  BY <1>0, <1>1 DEF SaveAnswer
<1>2. ASSUME NEW t \in Scripts, NEW p \in Asked, LateArrives(t, p)
      PROVE  FALSE
  BY <1>0, <1>2 DEF LateArrives
<1>3. ASSUME NEW t \in Scripts, NEW p \in Asked, DecideLate(t, p)
      PROVE  q \in lateOne[s] \ lateOne'[s]
  <2>1. t = s /\ p = q
    BY <1>0, <1>3 DEF DecideLate
  <2>2. QED
    BY <1>0, <1>3, <2>1 DEF DecideLate
<1>4. ASSUME NEW t \in Scripts, NEW p \in Asked, Review(t, p)
      PROVE  s \in MarkedOf(q)'
  <2>1. t = s /\ p = q
    BY <1>0, <1>4 DEF Review
  <2>2. QED
    BY <1>0, <1>4, <2>1 DEF Review, MarkedOf, Answered, Submitted, RowsOf
<1>5. ASSUME NEW t \in Scripts, HandIn(t) \/ SitAgain(t)
      PROVE  FALSE
  <2>1. t # s
    BY <1>0, <1>5 DEF HandIn, SitAgain
  <2>2. QED
    BY <1>0, <1>5, <2>1 DEF HandIn, SitAgain
<1>6. ASSUME NEW t \in Scripts, GiveBack(t)
      PROVE  script'[s] = "reset"
  BY <1>0, <1>6 DEF GiveBack
<1>7. ASSUME ToAndFro \/ \E p \in Asked : ChangePaper(p)
      PROVE  FALSE
  BY <1>0, <1>7 DEF ToAndFro, ChangePaper
<1>8. QED
  BY <1>1, <1>2, <1>3, <1>4, <1>5, <1>6, <1>7 DEF QueueNext

(* Only written answers wait on scripts that were handed in.               *)
THEOREM QueueInvariance == QueueSpec => []QueueInv
<1>1. QueueInv /\ [QueueNext]_queueVars => QueueInv'
  BY QueueStays
<1>2. QED
  BY <1>1, QueueBegins, PTL DEF QueueSpec

(* The answers and what waits of them stay well-formed.                    *)
THEOREM QueueTyped == QueueSpec => []QueueTypeOK
<1>1. QueueInv => QueueTypeOK
  BY DEF QueueInv
<1>2. QED
  BY <1>1, QueueInvariance, PTL

(* For any scripts and questions: the queue holds what keeps results       *)
(* undecided, and nothing leaves it unmarked (marking_service.py).         *)
THEOREM QueueStaysKept == QueueSpec => QueueKept
<1>1. QueueInv /\ [QueueNext]_queueVars =>
        [UNCHANGED queueVars \/ (QueueAgrees /\ LeavesMarked)]_queueVars
  BY QueuesAgree, MarkedLeave
<1>2. QED
  BY <1>1, QueueInvariance, PTL DEF QueueSpec, QueueKept

---------------------------------------------------------------------------
(* Accounts: what an upload comes to                                       *)

NewRows  == [kind : {"staff", "student"}, mail : Lowered, number : Numbers \union {"none"}, pending : BOOLEAN]
Uploads  == [seen : SUBSET Numbers, rows : SUBSET NewRows]
NoUpload == [seen |-> {}, rows |-> {}]

LEMMA GreatestNumber ==
  ASSUME NEW n \in Nat, NEW s \in SUBSET (1..n), s # {}
  PROVE  Seqs!Max(s) \in s /\ \A y \in s : y <= Seqs!Max(s)
<1> DEFINE Left == {n - y : y \in s}
<1>0. \A y \in s : y \in 1..n /\ n - y \in Nat
  OBVIOUS
<1>1. Left \subseteq Nat /\ Left # {}
  BY <1>0
<1>2. PICK m \in Left : \A k \in Left : m <= k
  <2> HIDE DEF Left
  <2>1. QED
    BY <1>1, LeastNumber
<1>3. PICK x \in s : m = n - x
  BY <1>2
<1>4. ASSUME NEW y \in s PROVE x >= y
  <2>1. m <= n - y
    BY <1>2
  <2>2. QED
    BY <1>3, <2>1
<1>5. Seqs!Max(s) \in s /\ \A y \in s : Seqs!Max(s) >= y
  BY <1>3, <1>4 DEF Seqs!Max
<1>6. QED
  BY <1>5

LEMMA UploadRowTyped ==
  ASSUME NEW done \in Uploads, NEW row \in Lowered \X Numbers
  PROVE  UploadRow(done, row) \in Uploads
<1>1. PICK m, n : row = <<m, n>> /\ m \in Lowered /\ n \in Numbers
  OBVIOUS
<1>2. NewStudent(m, n) \in NewRows
  BY <1>1 DEF NewStudent, NewRows
<1>3. row[1] = m /\ row[2] = n
  BY <1>1
<1>4. PICK free : free = /\ n \notin done.seen /\ ~ NumberTaken(n) /\ ~ MailTaken(m)
                         /\ m = NoMail \/ \A x \in done.rows : x.mail # m
  OBVIOUS
<1>5. UploadRow(done, row) = [seen |-> done.seen \union {n},
                              rows |-> done.rows \union IF free THEN {NewStudent(m, n)} ELSE {}]
  BY <1>3, <1>4 DEF UploadRow
<1>6. QED
  BY <1>1, <1>2, <1>5 DEF Uploads

(* The rows of a file are taken one after another. *)
LEMMA UploadUnfolds ==
  ASSUME NEW k \in Nat, NEW file \in [1..k -> Lowered \X Numbers]
  PROVE  \E g : /\ g[0] = NoUpload
                /\ \A i \in 1..k : g[i] = UploadRow(g[i - 1], file[i])
                /\ Seqs!FoldLeft(UploadRow, NoUpload, file) = g[k]
<1> DEFINE D == 1..k
           step(g) == [s \in SUBSET D |->
                         IF s = {} THEN NoUpload ELSE UploadRow(g[s \ {Seqs!Max(s)}], file[Seqs!Max(s)])]
           op   == [z \in (SUBSET D) \X Uploads |->
                      IF z[1] = {} THEN NoUpload ELSE UploadRow(z[2], file[Seqs!Max(z[1])])]
           pick == [s \in SUBSET D |-> Seqs!Max(s)]
<1>1. DOMAIN file = D
  OBVIOUS
<1>2. Seqs!FoldLeft(UploadRow, NoUpload, file) = (CHOOSE g : g = step(g))[D]
  BY <1>1, Zenon DEF Seqs!FoldLeft, Seqs!MapThenFoldSet
<1>3. IsFiniteSet(D)
  BY FS_Interval
<1>4. \A s \in SUBSET D : s # {} => Seqs!Max(s) \in s /\ Seqs!Max(s) \in D /\ pick[s] = Seqs!Max(s)
  BY GreatestNumber
<1>5. NoUpload \in Uploads
  BY DEF NoUpload, Uploads
<1>6. op \in [(SUBSET D) \X Uploads -> Uploads]
  <2>1. ASSUME NEW z \in (SUBSET D) \X Uploads
        PROVE  (IF z[1] = {} THEN NoUpload ELSE UploadRow(z[2], file[Seqs!Max(z[1])])) \in Uploads
    <3>1. z[1] \in SUBSET D /\ z[2] \in Uploads
      OBVIOUS
    <3>2. CASE z[1] = {}
      BY <1>5, <3>2
    <3>3. CASE z[1] # {}
      <4>1. file[Seqs!Max(z[1])] \in Lowered \X Numbers
        BY <1>4, <3>1, <3>3
      <4>2. QED
        BY <3>1, <3>3, <4>1, UploadRowTyped
    <3>4. QED
      BY <3>2, <3>3
  <2>2. QED
    BY <2>1
<1>7. \A s \in SUBSET D, u \in Uploads : s # {} => op[<<s, u>>] = UploadRow(u, file[Seqs!Max(s)])
  OBVIOUS
<1>8. PICK o, p : o = op /\ p = pick
  OBVIOUS
<1>9. \E g : g = step(g)
  <2> HIDE DEF op, pick, D
  <2>1. CanFold(NoUpload, o, p, D, Uploads)
    BY <1>3, <1>4, <1>5, <1>6, <1>8 DEF CanFold
  <2>2. PICK g \in [SUBSET D -> Uploads] : g = FoldStep(NoUpload, o, p, D, g)
    BY <2>1, FoldExists DEF HasFold
  <2>3. ASSUME NEW s \in SUBSET D
        PROVE  g[s] = IF s = {} THEN NoUpload ELSE UploadRow(g[s \ {Seqs!Max(s)}], file[Seqs!Max(s)])
    <3>1. g[s] = IF s = {} THEN NoUpload ELSE o[<<s, g[s \ {p[s]}]>>]
      BY <2>2 DEF FoldStep
    <3>2. CASE s # {}
      <4>1. p[s] = Seqs!Max(s) /\ g[s \ {p[s]}] \in Uploads
        BY <1>4, <1>8, <2>2, <3>2
      <4>2. QED
        BY <1>7, <1>8, <3>1, <3>2, <4>1
    <3>3. QED
      BY <3>1, <3>2
  <2>4. g = step(g)
    BY <2>2, <2>3
  <2>5. QED
    BY <2>4
<1>10. PICK g : g = step(g) /\ Seqs!FoldLeft(UploadRow, NoUpload, file) = g[D]
  <2> HIDE DEF step
  <2>1. QED
    BY <1>2, <1>9
<1> DEFINE h == [i \in 0..k |-> g[1..i]]
<1>11. \A i \in 0..k : 1..i \in SUBSET D
  OBVIOUS
<1>12. h[0] = NoUpload
  <2>1. 1..0 = {} /\ 0 \in 0..k
    OBVIOUS
  <2>2. QED
    BY <1>10, <1>11, <2>1
<1>13. ASSUME NEW i \in 1..k PROVE h[i] = UploadRow(h[i - 1], file[i])
  <2>1. i - 1 \in 0..k /\ i \in 0..k /\ 1..i \in SUBSET D /\ 1..i # {}
    <3>1. i - 1 \in 0..k /\ i \in 0..k
      OBVIOUS
    <3>2. i \in 1..i
      OBVIOUS
    <3>3. QED
      BY <1>11, <3>1, <3>2
  <2>2. Seqs!Max(1..i) = i
    <3>1. Seqs!Max(1..i) \in 1..i /\ \A y \in 1..i : y <= Seqs!Max(1..i)
      BY <2>1, GreatestNumber
    <3>2. i \in 1..i
      OBVIOUS
    <3>3. QED
      BY <3>1, <3>2
  <2>3. (1..i) \ {i} = 1..(i - 1)
    OBVIOUS
  <2>4. g[1..i] = UploadRow(g[1..(i - 1)], file[i])
    BY <1>10, <2>1, <2>2, <2>3
  <2>5. QED
    BY <2>1, <2>4
<1>14. h[k] = g[D]
  OBVIOUS
<1> HIDE DEF h, D, step
<1>15. QED
  BY <1>10, <1>12, <1>13, <1>14

(* Of the first i rows, those that are taken are students of their own,    *)
(* with addresses of their own; and a number that is not among them is a   *)
(* student's already, or the address of its first row is taken.            *)
UploadSound(u, file, i) ==
  /\ u \in Uploads
  /\ u.seen = {file[j][2] : j \in 1..i}
  /\ \A x \in u.rows : x.kind = "student" /\ x.number \in u.seen /\ ~ NumberTaken(x.number)
  /\ \A x, y \in u.rows : x # y =>
       x.number # y.number /\ (x.mail # NoMail => x.mail # y.mail)
  /\ \A j \in 1..i :
       \/ NumberTaken(file[j][2])
       \/ \E x \in u.rows : x.number = file[j][2]
       \/ \E l \in 1..i :
            /\ file[l][2] = file[j][2] /\ \A b \in 1..(l - 1) : file[b][2] # file[j][2]
            /\ MailTaken(file[l][1]) \/ (file[l][1] # NoMail /\ \E x \in u.rows : x.mail = file[l][1])

LEMMA UploadRowSound ==
  ASSUME NEW k \in Nat, NEW file \in [1..k -> Lowered \X Numbers], NEW i \in 1..k,
         NEW u, UploadSound(u, file, i - 1)
  PROVE  UploadSound(UploadRow(u, file[i]), file, i)
<1>1. PICK m, n : file[i] = <<m, n>> /\ m \in Lowered /\ n \in Numbers
  OBVIOUS
<1>2. file[i][1] = m /\ file[i][2] = n
  BY <1>1
<1>3. PICK x : x = NewStudent(m, n)
  OBVIOUS
<1>4. x.kind = "student" /\ x.mail = m /\ x.number = n
  BY <1>3 DEF NewStudent
<1>5. PICK free : free = /\ n \notin u.seen /\ ~ NumberTaken(n) /\ ~ MailTaken(m)
                         /\ m = NoMail \/ \A y \in u.rows : y.mail # m
  OBVIOUS
<1>6. PICK v : v = UploadRow(u, file[i])
  OBVIOUS
<1>7. v = [seen |-> u.seen \union {n}, rows |-> u.rows \union IF free THEN {x} ELSE {}]
  BY <1>2, <1>3, <1>5, <1>6 DEF UploadRow
<1>8. v.seen = u.seen \union {n} /\ v.rows = (IF free THEN u.rows \union {x} ELSE u.rows)
  BY <1>7
<1>9. v \in Uploads
  BY <1>1, <1>6, UploadRowTyped DEF UploadSound
<1>10. 1..i = (1..(i - 1)) \union {i} /\ i \in 1..i
  OBVIOUS
<1>11. v.seen = {file[j][2] : j \in 1..i}
  BY <1>2, <1>8, <1>10 DEF UploadSound
<1>12. \A y \in v.rows : y.kind = "student" /\ y.number \in v.seen /\ ~ NumberTaken(y.number)
  BY <1>4, <1>5, <1>8 DEF UploadSound
<1>13. ASSUME NEW y \in v.rows, NEW z \in v.rows, y # z
       PROVE  y.number # z.number /\ (y.mail # NoMail => y.mail # z.mail)
  <2>1. CASE y \in u.rows /\ z \in u.rows
    BY <1>13, <2>1 DEF UploadSound
  <2>2. CASE free /\ y = x /\ z \in u.rows
    BY <1>4, <1>5, <2>2 DEF UploadSound
  <2>3. CASE free /\ z = x /\ y \in u.rows
    BY <1>4, <1>5, <2>3 DEF UploadSound
  <2>4. QED
    BY <1>8, <1>13, <2>1, <2>2, <2>3
<1>14. ASSUME NEW j \in 1..i
       PROVE  \/ NumberTaken(file[j][2])
              \/ \E y \in v.rows : y.number = file[j][2]
              \/ \E l \in 1..i :
                   /\ file[l][2] = file[j][2] /\ \A b \in 1..(l - 1) : file[b][2] # file[j][2]
                   /\ MailTaken(file[l][1]) \/ (file[l][1] # NoMail /\ \E y \in v.rows : y.mail = file[l][1])
  <2>1. u.rows \subseteq v.rows /\ \A l \in 1..(i - 1) : l \in 1..i
    BY <1>8
  <2>2. ASSUME NEW a \in 1..(i - 1), file[a][2] = file[j][2]
        PROVE  \/ NumberTaken(file[j][2])
               \/ \E y \in v.rows : y.number = file[j][2]
               \/ \E l \in 1..i :
                    /\ file[l][2] = file[j][2] /\ \A b \in 1..(l - 1) : file[b][2] # file[j][2]
                    /\ MailTaken(file[l][1]) \/ (file[l][1] # NoMail /\ \E y \in v.rows : y.mail = file[l][1])
    <3>1. CASE NumberTaken(file[a][2])
      BY <2>2, <3>1
    <3>2. CASE \E y \in u.rows : y.number = file[a][2]
      BY <2>1, <2>2, <3>2
    <3>3. ASSUME NEW l \in 1..(i - 1), file[l][2] = file[a][2], \A b \in 1..(l - 1) : file[b][2] # file[a][2],
                 MailTaken(file[l][1]) \/ (file[l][1] # NoMail /\ \E y \in u.rows : y.mail = file[l][1])
          PROVE  \E h \in 1..i :
                   /\ file[h][2] = file[j][2] /\ \A b \in 1..(h - 1) : file[b][2] # file[j][2]
                   /\ MailTaken(file[h][1]) \/ (file[h][1] # NoMail /\ \E y \in v.rows : y.mail = file[h][1])
      <4>1. l \in 1..i /\ file[l][2] = file[j][2] /\ \A b \in 1..(l - 1) : file[b][2] # file[j][2]
        BY <2>1, <2>2, <3>3
      <4>2. MailTaken(file[l][1]) \/ (file[l][1] # NoMail /\ \E y \in v.rows : y.mail = file[l][1])
        BY <2>1, <3>3
      <4>3. QED
        BY <4>1, <4>2
    <3>4. QED
      BY <3>1, <3>2, <3>3 DEF UploadSound
  <2>3. CASE j \in 1..(i - 1)
    BY <2>2, <2>3
  <2>4. CASE j = i /\ n \in u.seen
    <3>1. PICK a \in 1..(i - 1) : file[a][2] = n
      BY <2>4 DEF UploadSound
    <3>2. QED
      BY <1>2, <2>2, <2>4, <3>1
  <2>5. CASE j = i /\ n \notin u.seen
    <3>1. \A b \in 1..(i - 1) : file[b][2] # n
      BY <2>5 DEF UploadSound
    <3>2. CASE free
      BY <1>2, <1>4, <1>8, <2>5, <3>2
    <3>3. CASE ~ free /\ ~ NumberTaken(n)
      <4>1. MailTaken(m) \/ (m # NoMail /\ \E y \in u.rows : y.mail = m)
        BY <1>5, <2>5, <3>3
      <4>2. MailTaken(m) \/ (m # NoMail /\ \E y \in v.rows : y.mail = m)
        BY <2>1, <4>1
      <4>3. QED
        BY <1>2, <2>5, <3>1, <4>2
    <3>4. QED
      BY <1>2, <2>5, <3>2, <3>3
  <2>6. QED
    BY <1>10, <2>3, <2>4, <2>5
<1>15. QED
  BY <1>6, <1>9, <1>11, <1>12, <1>13, <1>14 DEF UploadSound

LEMMA WholeUploadSound ==
  ASSUME NEW k \in Nat, NEW file \in [1..k -> Lowered \X Numbers]
  PROVE  UploadSound(Seqs!FoldLeft(UploadRow, NoUpload, file), file, k)
<1>1. PICK g : /\ g[0] = NoUpload
               /\ \A i \in 1..k : g[i] = UploadRow(g[i - 1], file[i])
               /\ Seqs!FoldLeft(UploadRow, NoUpload, file) = g[k]
  BY UploadUnfolds
<1> DEFINE Bad == {i \in 0..k : ~ UploadSound(g[i], file, i)}
<1>2. UploadSound(NoUpload, file, 0)
  BY DEF UploadSound, NoUpload, Uploads
<1>3. Bad = {}
  <2> SUFFICES ASSUME Bad # {} PROVE FALSE
    OBVIOUS
  <2>1. PICK i \in Bad : \A j \in Bad : i <= j
    <3>1. Bad \subseteq Nat /\ Bad # {}
      OBVIOUS
    <3> HIDE DEF Bad
    <3>2. QED
      BY <3>1, LeastNumber
  <2>2. i \in 1..k /\ ~ UploadSound(g[i], file, i)
    BY <1>1, <1>2, <2>1
  <2>3. i - 1 \in 0..k /\ ~ (i <= i - 1)
    BY <2>2
  <2>4. i - 1 \notin Bad
    <3> HIDE DEF Bad
    <3>1. QED
      BY <2>1, <2>3
  <2>5. UploadSound(g[i - 1], file, i - 1)
    BY <2>3, <2>4
  <2>6. UploadSound(UploadRow(g[i - 1], file[i]), file, i)
    BY <2>2, <2>5, UploadRowSound
  <2>7. QED
    BY <1>1, <2>2, <2>6
<1>4. UploadSound(g[k], file, k)
  BY <1>3
<1>5. QED
  BY <1>1, <1>4

---------------------------------------------------------------------------
(* Accounts: what requests hold                                            *)

IdOps       == {"none", "create", "upload", "mail", "correct", "update"}
Corrections == {"mail", "correct", "update"}

People  == [kind : {"none", "staff", "student"}, mail : Mails,
            number : Numbers \union {"none"}, pending : BOOLEAN]
IdWorks == [op : IdOps, rows : SUBSET NewRows, file : Files \union {<<>>}, who : Persons \union {"none"},
            mail : Mails \union {KeepMail}, number : Numbers \union {"keep"}, met : BOOLEAN]

(* Every number of a file is a student's, or will be, or the address in    *)
(* its first row is somebody's, or will be.                                *)
WillBeTaken(new, file) == \A j \in DOMAIN file :
  \/ NumberTaken(file[j][2])
  \/ \E x \in new : x.number = file[j][2] /\ x.kind = "student"
  \/ \E l \in DOMAIN file :
       /\ file[l][2] = file[j][2] /\ \A b \in 1..(l - 1) : file[b][2] # file[j][2]
       /\ MailTaken(file[l][1]) \/ (file[l][1] # NoMail /\ \E x \in new : x.mail = file[l][1])

(* What a request has read that nobody has overtaken. *)
StillFree(w) ==
  /\ \A x \in w.rows : x.kind = "student" => ~ NumberTaken(x.number)
  /\ WillBeTaken(w.rows, w.file)
  /\ w.op \in Corrections /\ w.number # "keep" =>
       w.who \in Pupils /\ \A q \in Pupils \ {w.who} : person[q].number # w.number

RowsApart(new) == \A x, y \in new : x # y =>
  /\ x.mail # NoMail => x.mail # y.mail
  /\ x.kind = "student" /\ y.kind = "student" => x.number # y.number

IdWorkSound(w) ==
  /\ w.op \in Corrections => w.who \in Persons
  /\ w.who # "none" => w.file = <<>>
  /\ RowsApart(w.rows)
  /\ ~ w.met => StillFree(w)

IdInv ==
  /\ person \in [Persons -> People]
  /\ idWork \in [IdReqs -> IdWorks]
  /\ OneAccountEach
  /\ \A r \in IdReqs : IdWorkSound(idWork[r])

LEMMA NoIdWorkSound == NoIdWork \in IdWorks /\ IdWorkSound(NoIdWork) /\ NoIdWork.op = "none"
BY DEF NoIdWork, IdWorks, IdOps, IdWorkSound, Corrections, RowsApart, StillFree, WillBeTaken

LEMMA IdBegins == IdInit => IdInv
<1> SUFFICES ASSUME IdInit PROVE IdInv
  OBVIOUS
<1>1. Nobody \in People /\ Nobody.kind = "none"
  BY DEF Nobody, People, Mails
<1>2. person \in [Persons -> People] /\ OneAccountEach
  BY <1>1 DEF IdInit, OneAccountEach, Registered
<1>3. idWork \in [IdReqs -> IdWorks] /\ \A r \in IdReqs : idWork[r] = NoIdWork
  BY NoIdWorkSound DEF IdInit
<1>4. QED
  BY <1>2, <1>3, NoIdWorkSound DEF IdInv

LEMMA IdAsked ==
  ASSUME IdInv, NEW r \in IdReqs, NEW w \in IdWorks, AsksFor(r, w), IdWorkSound(w), w.op # "none"
  PROVE  IdInv' /\ person' = person /\ \A q \in IdReqs : idWork'[q].op = "none" => idWork[q].op = "none"
<1>1. person' = person /\ idWork' = [idWork EXCEPT ![r] = w] /\ idWork \in [IdReqs -> IdWorks]
  BY DEF AsksFor, IdInv
<1>2. idWork' \in [IdReqs -> IdWorks] /\ person' \in [Persons -> People] /\ OneAccountEach'
  BY <1>1 DEF IdInv, OneAccountEach, Registered
<1>3. ASSUME NEW q \in IdReqs PROVE IdWorkSound(idWork[q])'
  <2>1. PICK v : v = idWork'[q]
    OBVIOUS
  <2>2. IdWorkSound(v)
    BY <1>1, <2>1 DEF IdInv
  <2>3. QED
    BY <1>1, <2>1, <2>2
       DEF IdWorkSound, StillFree, WillBeTaken, NumberTaken, MailTaken, Pupils, Registered
<1>4. IdInv'
  BY <1>2, <1>3 DEF IdInv
<1>5. QED
  BY <1>1, <1>4

(* When rows change, every other request has been overtaken or is dropped. *)
LEMMA IdOvertaken ==
  ASSUME IdInv, NEW r, NEW gone, idWork' = Overtakes(r, gone),
         person' \in [Persons -> People], OneAccountEach'
  PROVE  IdInv' /\ \A q \in IdReqs :
           idWork[q].op # "none" /\ idWork'[q].op = "none" => q = r \/ idWork[q].who \in gone
<1>1. idWork \in [IdReqs -> IdWorks]
  BY DEF IdInv
<1>2. \A q \in IdReqs : \/ idWork'[q] = NoIdWork
                        \/ idWork'[q] = [idWork[q] EXCEPT !.met = TRUE] /\ q # r /\ idWork[q].who \notin gone
  BY DEF Overtakes
<1>3. ASSUME NEW v \in IdWorks PROVE [v EXCEPT !.met = TRUE] \in IdWorks
  <2>1. PICK u : u = [v EXCEPT !.met = TRUE]
    OBVIOUS
  <2>2. u = [op |-> v.op, rows |-> v.rows, file |-> v.file, who |-> v.who,
             mail |-> v.mail, number |-> v.number, met |-> TRUE]
    BY <2>1 DEF IdWorks
  <2>3. QED
    BY <2>1, <2>2 DEF IdWorks
<1>4. idWork' \in [IdReqs -> IdWorks]
  <2>1. ASSUME NEW q \in IdReqs PROVE idWork'[q] \in IdWorks
    <3>1. idWork[q] \in IdWorks
      BY <1>1
    <3>2. [idWork[q] EXCEPT !.met = TRUE] \in IdWorks
      BY <1>3, <3>1
    <3>3. QED
      BY <1>2, <3>2, NoIdWorkSound
  <2>2. idWork' = [q \in IdReqs |-> idWork'[q]]
    BY DEF Overtakes
  <2>3. QED
    BY <2>1, <2>2
<1>5. ASSUME NEW q \in IdReqs PROVE IdWorkSound(idWork[q])'
  <2>1. PICK v : v = idWork'[q]
    OBVIOUS
  <2>2. PICK u : u = idWork[q]
    OBVIOUS
  <2>3. u \in IdWorks /\ IdWorkSound(u)
    BY <1>1, <2>2 DEF IdInv
  <2>4. CASE v = NoIdWork
    <3>1. /\ v.who = "none" /\ v.op = "none" /\ v.rows = {} /\ v.file = <<>>
      BY <2>4 DEF NoIdWork
    <3>2. QED
      BY <2>1, <3>1 DEF IdWorkSound, RowsApart, StillFree, WillBeTaken, Corrections
  <2>5. CASE v = [u EXCEPT !.met = TRUE]
    <3>1. v.met /\ v.op = u.op /\ v.rows = u.rows /\ v.who = u.who /\ v.file = u.file
      BY <2>3, <2>5 DEF IdWorks
    <3>2. QED
      BY <2>1, <2>3, <3>1 DEF IdWorkSound
  <2>6. QED
    BY <1>2, <2>1, <2>2, <2>4, <2>5
<1>6. IdInv'
  BY <1>4, <1>5 DEF IdInv
<1>7. ASSUME NEW q \in IdReqs, idWork'[q] = [idWork[q] EXCEPT !.met = TRUE]
      PROVE  idWork'[q].op = idWork[q].op
  BY <1>1, <1>7 DEF IdWorks
<1>8. ASSUME NEW q \in IdReqs, idWork[q].op # "none", idWork'[q].op = "none"
      PROVE  q = r \/ idWork[q].who \in gone
  BY <1>7, <1>8 DEF Overtakes
<1>9. QED
  BY <1>6, <1>8

---------------------------------------------------------------------------
(* Accounts: what a request holds is sound when it asks                    *)

Work7(a, b, c, d, e, f, g) ==
  [op |-> a, rows |-> b, file |-> c, who |-> d, mail |-> e, number |-> f, met |-> g]

(* The same record as the requests write, field by field. *)
LEMMA WorksWritten ==
  ASSUME NEW o, NEW x, NEW y
  PROVE  /\ [NoIdWork EXCEPT !.op = o, !.rows = x] = Work7(o, x, <<>>, "none", KeepMail, "keep", FALSE)
         /\ [NoIdWork EXCEPT !.op = o, !.rows = x, !.file = y] = Work7(o, x, y, "none", KeepMail, "keep", FALSE)
         /\ [NoIdWork EXCEPT !.op = o, !.who = x, !.mail = y] = Work7(o, {}, <<>>, x, y, "keep", FALSE)
<1>1. PICK a, b, c, d, e, f, g :
        a = "none" /\ b = {} /\ c = <<>> /\ d = "none" /\ e = KeepMail /\ f = "keep" /\ g = FALSE
  OBVIOUS
<1>2. PICK w : w = Work7(a, b, c, d, e, f, g) /\ w = NoIdWork
  BY <1>1 DEF NoIdWork, Work7
<1>3. PICK w1 : w1 = [w EXCEPT !.op = o]
  OBVIOUS
<1>4. w1 = Work7(o, b, c, d, e, f, g)
  BY <1>2, <1>3 DEF Work7
<1>5. PICK w2 : w2 = [w1 EXCEPT !.rows = x]
  OBVIOUS
<1>6. w2 = Work7(o, x, c, d, e, f, g)
  BY <1>4, <1>5 DEF Work7
<1>7. [w2 EXCEPT !.file = y] = Work7(o, x, y, d, e, f, g)
  BY <1>6 DEF Work7
<1>8. PICK w3 : w3 = [w1 EXCEPT !.who = x]
  OBVIOUS
<1>9. w3 = Work7(o, b, c, x, e, f, g)
  BY <1>4, <1>8 DEF Work7
<1>10. PICK w4 : w4 = [w3 EXCEPT !.mail = y]
  OBVIOUS
<1>11. w4 = Work7(o, b, c, x, y, f, g)
  BY <1>9, <1>10 DEF Work7
<1>12. /\ [w EXCEPT !.op = o, !.rows = x] = w2
       /\ [w EXCEPT !.op = o, !.rows = x, !.file = y] = [w2 EXCEPT !.file = y]
       /\ [w EXCEPT !.op = o, !.who = x, !.mail = y] = w4
  BY <1>3, <1>5, <1>8, <1>10
<1>13. QED
  BY <1>1, <1>2, <1>6, <1>7, <1>11, <1>12

LEMMA CorrectionWritten ==
  ASSUME NEW o, NEW x, NEW y, NEW z
  PROVE  [NoIdWork EXCEPT !.op = o, !.who = x, !.mail = y, !.number = z] = Work7(o, {}, <<>>, x, y, z, FALSE)
<1>1. PICK w : w = [NoIdWork EXCEPT !.op = o, !.who = x, !.mail = y]
  OBVIOUS
<1>2. PICK b, c, f, g : b = {} /\ c = <<>> /\ f = "keep" /\ g = FALSE
  OBVIOUS
<1>3. w = Work7(o, b, c, x, y, f, g)
  BY <1>1, <1>2, WorksWritten
<1>4. [w EXCEPT !.number = z] = Work7(o, b, c, x, y, z, g)
  BY <1>3 DEF Work7
<1>5. [NoIdWork EXCEPT !.op = o, !.who = x, !.mail = y, !.number = z] = [w EXCEPT !.number = z]
  BY <1>1
<1>6. QED
  BY <1>2, <1>4, <1>5

LEMMA StaffAsked ==
  ASSUME IdInv, NEW r \in IdReqs, NEW m \in Lowered, AskStaff(r, m)
  PROVE  \E w \in IdWorks : AsksFor(r, w) /\ IdWorkSound(w) /\ w.op # "none"
<1>1. PICK w : w = Work7("create", {NewStaff(m)}, <<>>, "none", KeepMail, "keep", FALSE)
  OBVIOUS
<1>2. AsksFor(r, w)
  BY <1>1, WorksWritten DEF AskStaff
<1>3. NewStaff(m) \in NewRows /\ NewStaff(m).kind = "staff"
  BY DEF NewStaff, NewRows
<1>4. w \in IdWorks
  BY <1>1, <1>3 DEF Work7, IdWorks, IdOps
<1>5. IdWorkSound(w)
  BY <1>1, <1>3 DEF Work7, IdWorkSound, Corrections, RowsApart, StillFree, WillBeTaken
<1>6. QED
  BY <1>1, <1>2, <1>4, <1>5 DEF Work7

LEMMA StudentAsked ==
  ASSUME IdInv, NEW r \in IdReqs, NEW m \in Lowered, NEW n \in Numbers, AskStudent(r, m, n)
  PROVE  \E w \in IdWorks : AsksFor(r, w) /\ IdWorkSound(w) /\ w.op # "none"
<1>1. PICK w : w = Work7("create", {NewStudent(m, n)}, <<>>, "none", KeepMail, "keep", FALSE)
  OBVIOUS
<1>2. AsksFor(r, w) /\ ~ NumberTaken(n)
  BY <1>1, WorksWritten DEF AskStudent
<1>3. NewStudent(m, n) \in NewRows /\ NewStudent(m, n).number = n
  BY DEF NewStudent, NewRows
<1>4. w \in IdWorks
  BY <1>1, <1>3 DEF Work7, IdWorks, IdOps
<1>5. IdWorkSound(w)
  BY <1>1, <1>2, <1>3 DEF Work7, IdWorkSound, Corrections, RowsApart, StillFree, WillBeTaken
<1>6. QED
  BY <1>1, <1>2, <1>4, <1>5 DEF Work7

LEMMA UploadAsked ==
  ASSUME IdInv, NEW r \in IdReqs, NEW file \in Files, AskUpload(r, file)
  PROVE  \E w \in IdWorks : AsksFor(r, w) /\ IdWorkSound(w) /\ w.op # "none"
<1>1. PICK k \in 1..MaxRowsUp : file \in [1..k -> Lowered \X Numbers]
  BY DEF Files
<1>2. PICK u : u = Seqs!FoldLeft(UploadRow, NoUpload, file)
  OBVIOUS
<1>3. k \in Nat
  BY <1>1, UploadAssumption
<1>4. UploadSound(u, file, k)
  BY <1>1, <1>2, <1>3, WholeUploadSound
<1>5. PICK w : w = Work7("upload", u.rows, file, "none", KeepMail, "keep", FALSE)
  OBVIOUS
<1>6. AsksFor(r, w)
  BY <1>2, <1>5, WorksWritten DEF AskUpload, NoUpload
<1>7. u.rows \in SUBSET NewRows
  BY <1>4 DEF UploadSound, Uploads
<1>8. w \in IdWorks
  BY <1>5, <1>7 DEF Work7, IdWorks, IdOps
<1>9. RowsApart(u.rows) /\ \A x \in u.rows : ~ NumberTaken(x.number) /\ x.kind = "student"
  BY <1>4 DEF UploadSound, RowsApart
<1>10. WillBeTaken(u.rows, file)
  <2>1. DOMAIN file = 1..k
    BY <1>1
  <2>2. QED
    BY <1>4, <1>9, <2>1 DEF UploadSound, WillBeTaken
<1>11. IdWorkSound(w)
  BY <1>5, <1>9, <1>10 DEF Work7, IdWorkSound, Corrections, StillFree
<1>12. QED
  BY <1>5, <1>6, <1>8, <1>11 DEF Work7

(* A correction writes a number only where it may be written. *)
LEMMA CorrectionAsked ==
  ASSUME NEW o \in Corrections, NEW p \in Persons,
         NEW m \in Mails \union {KeepMail}, NEW n \in Numbers \union {"keep"},
         n # "keep" => p \in Pupils /\ \A q \in Pupils \ {p} : person[q].number # n
  PROVE  LET w == Work7(o, {}, <<>>, p, m, n, FALSE)
         IN  w \in IdWorks /\ IdWorkSound(w) /\ w.op # "none"
<1>1. PICK w : w = Work7(o, {}, <<>>, p, m, n, FALSE)
  OBVIOUS
<1>2. w \in IdWorks /\ w.op # "none"
  BY <1>1 DEF Work7, IdWorks, IdOps, Corrections
<1>3. IdWorkSound(w)
  BY <1>1 DEF Work7, IdWorkSound, Corrections, RowsApart, StillFree, WillBeTaken
<1>4. QED
  BY <1>1, <1>2, <1>3

LEMMA MailAsked ==
  ASSUME IdInv, NEW r \in IdReqs, NEW p \in Persons, NEW m \in Lowered, AskMail(r, p, m)
  PROVE  \E w \in IdWorks : AsksFor(r, w) /\ IdWorkSound(w) /\ w.op # "none"
<1>1. m \in Mails /\ "mail" \in Corrections
  BY DEF Lowered, Mails, Corrections
<1>2. PICK w : w = Work7("mail", {}, <<>>, p, m, "keep", FALSE)
  OBVIOUS
<1>3. w \in IdWorks /\ IdWorkSound(w) /\ w.op # "none"
  BY <1>1, <1>2, CorrectionAsked
<1>4. AsksFor(r, w)
  BY <1>2, WorksWritten DEF AskMail
<1>5. QED
  BY <1>3, <1>4

LEMMA CorrectAsked ==
  ASSUME IdInv, NEW r \in IdReqs, NEW p \in Persons, NEW m \in Lowered \union {KeepMail},
         NEW n \in Numbers \union {"keep"}, AskCorrect(r, p, m, n)
  PROVE  \E w \in IdWorks : AsksFor(r, w) /\ IdWorkSound(w) /\ w.op # "none"
<1>1. PICK a, b : a = Differing(m, person[p].mail, KeepMail) /\ b = Differing(n, person[p].number, "keep")
  OBVIOUS
<1>2. a \in Mails \union {KeepMail} /\ "correct" \in Corrections
  BY <1>1 DEF Lowered, Mails, Corrections, Differing
<1>3. b \in {n, "keep"}
  BY <1>1 DEF Differing
<1>4. b # "keep" => p \in Pupils /\ \A q \in Pupils \ {p} : person[q].number # b
  BY <1>3 DEF AskCorrect
<1>5. PICK w : w = Work7("correct", {}, <<>>, p, a, b, FALSE)
  OBVIOUS
<1>6. b \in Numbers \union {"keep"}
  BY <1>3
<1>7. w \in IdWorks /\ IdWorkSound(w) /\ w.op # "none"
  BY <1>2, <1>4, <1>5, <1>6, CorrectionAsked
<1>8. AsksFor(r, w)
  <2>1. AsksFor(r, [NoIdWork EXCEPT !.op = "correct", !.who = p, !.mail = a, !.number = b])
    BY <1>1, Zenon DEF AskCorrect
  <2>2. [NoIdWork EXCEPT !.op = "correct", !.who = p, !.mail = a, !.number = b] = w
    BY <1>5, CorrectionWritten
  <2>3. QED
    BY <2>1, <2>2
<1>9. QED
  BY <1>7, <1>8

LEMMA UpdateAsked ==
  ASSUME IdInv, NEW r \in IdReqs, NEW p \in Persons, NEW m \in Mails, AskUpdate(r, p, m)
  PROVE  \E w \in IdWorks : AsksFor(r, w) /\ IdWorkSound(w) /\ w.op # "none"
<1>1. PICK a : a = Differing(m, person[p].mail, KeepMail)
  OBVIOUS
<1>2. a \in Mails \union {KeepMail} /\ "update" \in Corrections
  BY <1>1 DEF Corrections, Differing
<1>3. PICK w : w = Work7("update", {}, <<>>, p, a, "keep", FALSE)
  OBVIOUS
<1>4. w \in IdWorks /\ IdWorkSound(w) /\ w.op # "none"
  BY <1>2, <1>3, CorrectionAsked
<1>5. AsksFor(r, w)
  <2>1. AsksFor(r, [NoIdWork EXCEPT !.op = "update", !.who = p, !.mail = a])
    BY <1>1, Zenon DEF AskUpdate
  <2>2. [NoIdWork EXCEPT !.op = "update", !.who = p, !.mail = a] = w
    BY <1>3, WorksWritten
  <2>3. QED
    BY <2>1, <2>2
<1>6. QED
  BY <1>4, <1>5

---------------------------------------------------------------------------
(* Accounts: what each step keeps                                          *)

(* What AccountsKept says of one step. *)
AccountsHold ==
  /\ OneAccountEach'
  /\ \A r \in IdReqs :
       idWork[r].op # "none" /\ ~ idWork[r].met /\ idWork'[r].op = "none" /\ person' # person =>
         /\ NumbersDiffer => NumbersDiffer'
         /\ \A file \in {idWork[r].file} : FileTaken(file)'
  /\ NumbersDiffer /\ ~ NumbersDiffer' => \E r \in IdReqs : idWork[r].met

LEMMA AskKeeps ==
  ASSUME IdInv, NEW r \in IdReqs,
         \E w \in IdWorks : AsksFor(r, w) /\ IdWorkSound(w) /\ w.op # "none"
  PROVE  IdInv' /\ AccountsHold
<1>1. PICK w \in IdWorks : AsksFor(r, w) /\ IdWorkSound(w) /\ w.op # "none"
  OBVIOUS
<1>2. IdInv' /\ person' = person
  BY <1>1, IdAsked
<1>3. NumbersDiffer => NumbersDiffer'
  BY <1>2 DEF NumbersDiffer, Different, Pupils
<1>4. QED
  BY <1>2, <1>3 DEF AccountsHold, IdInv

LEMMA DropKeeps ==
  ASSUME IdInv, NEW r \in IdReqs, DropId(r)
  PROVE  IdInv' /\ AccountsHold
<1>1. person' = person /\ idWork' = [idWork EXCEPT ![r] = NoIdWork]
  BY DEF DropId
<1>2. idWork' \in [IdReqs -> IdWorks] /\ person' \in [Persons -> People] /\ OneAccountEach'
  BY <1>1, NoIdWorkSound DEF IdInv, OneAccountEach, Registered
<1>3. ASSUME NEW q \in IdReqs PROVE IdWorkSound(idWork[q])'
  <2>1. PICK v : v = idWork'[q]
    OBVIOUS
  <2>2. IdWorkSound(v)
    BY <1>1, <2>1, NoIdWorkSound DEF IdInv
  <2>3. QED
    BY <1>1, <2>1, <2>2
       DEF IdWorkSound, StillFree, WillBeTaken, NumberTaken, MailTaken, Pupils, Registered
<1>4. IdInv'
  BY <1>2, <1>3 DEF IdInv
<1>5. NumbersDiffer => NumbersDiffer'
  BY <1>1 DEF NumbersDiffer, Different, Pupils
<1>6. QED
  BY <1>1, <1>2, <1>4, <1>5 DEF AccountsHold

(* Only the sequence of length zero has no row to be taken. *)
LEMMA NoFileTaken == FileTaken(<<>>)'
BY DEF FileTaken

LEMMA ActivatedKeeps ==
  ASSUME IdInv, NEW p \in Persons, Activated(p)
  PROVE  IdInv' /\ AccountsHold
<1>1. person' = [person EXCEPT ![p].pending = FALSE] /\ idWork' = Overtakes("nobody", {})
  BY DEF Activated
<1>2. person \in [Persons -> People]
  BY DEF IdInv
<1>3. PICK z : z = [person[p] EXCEPT !.pending = FALSE]
  OBVIOUS
<1>4. person[p] \in People
  BY <1>2
<1>5. z = [kind |-> person[p].kind, mail |-> person[p].mail, number |-> person[p].number, pending |-> FALSE]
  BY <1>3, <1>4 DEF People
<1>6. z \in People /\ z.kind = person[p].kind /\ z.mail = person[p].mail /\ z.number = person[p].number
  BY <1>4, <1>5 DEF People
<1>7. person' = [person EXCEPT ![p] = z]
  BY <1>1, <1>3
<1>8. person' \in [Persons -> People]
  BY <1>2, <1>6, <1>7
<1>9. \A q \in Persons : /\ person'[q].kind = person[q].kind
                         /\ person'[q].mail = person[q].mail
                         /\ person'[q].number = person[q].number
  BY <1>2, <1>6, <1>7
<1>10. OneAccountEach'
  BY <1>9 DEF IdInv, OneAccountEach, Registered
<1>11. IdInv' /\ \A q \in IdReqs : idWork[q].op # "none" /\ idWork'[q].op = "none" => q = "nobody"
  <2>1. PICK gone : gone = {}
    OBVIOUS
  <2>2. idWork' = Overtakes("nobody", gone)
    BY <1>1, <2>1
  <2>3. QED
    BY <1>8, <1>10, <2>1, <2>2, IdOvertaken
<1>12. NumbersDiffer => NumbersDiffer'
  <2>1. Pupils' = Pupils
    BY <1>9 DEF Pupils
  <2>2. QED
    BY <1>9, <2>1 DEF NumbersDiffer, Different, Pupils
<1>13. QED
  BY <1>10, <1>11, <1>12, IdNamesAssumption DEF AccountsHold

LEMMA DeletedKeeps ==
  ASSUME IdInv, NEW p \in Persons, Deleted(p)
  PROVE  IdInv' /\ AccountsHold
<1>1. person' = [person EXCEPT ![p] = Nobody] /\ idWork' = Overtakes("nobody", {p})
  BY DEF Deleted
<1>2. Nobody \in People /\ Nobody.kind = "none"
  BY DEF Nobody, People, Mails
<1>3. person' \in [Persons -> People]
  BY <1>1, <1>2 DEF IdInv
<1>4. Registered' = Registered \ {p} /\ Pupils' = Pupils \ {p}
  BY <1>1, <1>2 DEF IdInv, Registered, Pupils
<1>5. \A q \in Persons \ {p} : person'[q] = person[q]
  BY <1>1 DEF IdInv
<1>6. OneAccountEach'
  BY <1>4, <1>5 DEF IdInv, OneAccountEach, Registered
<1>7. IdInv' /\ \A q \in IdReqs :
        idWork[q].op # "none" /\ idWork'[q].op = "none" => q = "nobody" \/ idWork[q].who \in {p}
  BY <1>1, <1>3, <1>6, IdOvertaken
<1>8. NumbersDiffer => NumbersDiffer'
  BY <1>4, <1>5 DEF NumbersDiffer, Different, Pupils
<1>9. ASSUME NEW q \in IdReqs, idWork[q].op # "none", idWork'[q].op = "none"
      PROVE  \A file \in {idWork[q].file} : FileTaken(file)'
  <2>1. idWork[q].who = p /\ p # "none"
    BY <1>7, <1>9, IdNamesAssumption
  <2>2. idWork[q].file = <<>>
    BY <2>1 DEF IdInv, IdWorkSound
  <2>3. QED
    BY <2>2, NoFileTaken
<1>10. QED
  BY <1>6, <1>7, <1>8, <1>9 DEF AccountsHold

LEMMA CommitNewKeeps ==
  ASSUME IdInv, NEW r \in IdReqs, CommitNew(r)
  PROVE  IdInv' /\ AccountsHold
<1>1. PICK w : w = idWork[r]
  OBVIOUS
<1>2. w \in IdWorks /\ IdWorkSound(w) /\ w.op \in {"create", "upload"}
  BY <1>1 DEF IdInv, CommitNew
<1>3. PICK at \in [w.rows -> Persons \ Registered] :
        /\ \A x, y \in w.rows : at[x] = at[y] => x = y
        /\ person' = [p \in Persons |->
             IF \E x \in w.rows : at[x] = p THEN CHOOSE x \in w.rows : at[x] = p ELSE person[p]]
  BY <1>1 DEF CommitNew
<1>4. \A x \in w.rows : at[x] \in Persons /\ at[x] \notin Registered /\ person'[at[x]] = x
  BY <1>3
<1>5. \A p \in Persons : (\A x \in w.rows : at[x] # p) => person'[p] = person[p]
  BY <1>3
<1>6. \A x \in w.rows : x \in People /\ x.kind \in {"staff", "student"}
  BY <1>2 DEF IdWorks, NewRows, People, Lowered, Mails
<1>7. \A p \in Persons : person'[p] = person[p] \/ \E x \in w.rows : at[x] = p
  BY <1>5
<1>8. person' \in [Persons -> People]
  <2>1. \A p \in Persons : person'[p] \in People
    BY <1>4, <1>6, <1>7 DEF IdInv
  <2>2. person' = [p \in Persons |-> person'[p]]
    BY <1>3
  <2>3. QED
    BY <2>1, <2>2
<1>9. /\ \A p \in Registered : p \in Registered' /\ person'[p] = person[p]
      /\ \A p \in Registered' : p \in Registered \/ \E x \in w.rows : at[x] = p
      /\ \A x \in w.rows : at[x] \in Registered'
  BY <1>4, <1>5, <1>6, <1>7 DEF Registered
<1>10. \A x \in w.rows : x.mail # NoMail => \A q \in Registered : person[q].mail # x.mail
  BY <1>1 DEF CommitNew, UniqueMails, StoredRows
<1>11. OneAccountEach'
  <2>1. ASSUME NEW p \in Registered', NEW q \in Registered', p # q, person'[p].mail # NoMail
        PROVE  person'[p].mail # person'[q].mail
    <3>1. CASE p \in Registered /\ q \in Registered
      BY <1>9, <2>1, <3>1 DEF IdInv, OneAccountEach
    <3>2. ASSUME NEW x \in w.rows, at[x] = p, q \in Registered
          PROVE  person'[p].mail # person'[q].mail
      BY <1>4, <1>9, <1>10, <2>1, <3>2
    <3>3. ASSUME NEW x \in w.rows, at[x] = q, p \in Registered
          PROVE  person'[p].mail # person'[q].mail
      BY <1>4, <1>9, <1>10, <2>1, <3>3
    <3>4. ASSUME NEW x \in w.rows, NEW y \in w.rows, at[x] = p, at[y] = q
          PROVE  person'[p].mail # person'[q].mail
      <4>1. x # y /\ person'[p] = x /\ person'[q] = y
        BY <1>4, <2>1, <3>4
      <4>2. QED
        BY <1>2, <2>1, <4>1 DEF IdWorkSound, RowsApart
    <3>5. QED
      BY <1>9, <3>1, <3>2, <3>3, <3>4
  <2>2. QED
    BY <2>1 DEF OneAccountEach
<1>12. IdInv' /\ \A q \in IdReqs : idWork[q].op # "none" /\ idWork'[q].op = "none" => q = r
  <2>1. PICK gone : gone = {}
    OBVIOUS
  <2>2. idWork' = Overtakes(r, gone)
    BY <2>1 DEF CommitNew
  <2>3. QED
    BY <1>8, <1>11, <2>1, <2>2, IdOvertaken
<1>13. /\ \A p \in Pupils : p \in Pupils' /\ person'[p] = person[p]
       /\ \A p \in Pupils' : p \in Pupils \/ \E x \in w.rows : at[x] = p /\ x.kind = "student"
  BY <1>4, <1>5, <1>6, <1>7, <1>9 DEF Pupils, Registered
<1>14. ASSUME ~ w.met, NumbersDiffer PROVE NumbersDiffer'
  <2>1. ASSUME NEW p \in Pupils', NEW q \in Pupils', p # q
        PROVE  person'[p].number # person'[q].number
    <3>1. CASE p \in Pupils /\ q \in Pupils
      BY <1>13, <1>14, <2>1, <3>1 DEF NumbersDiffer, Different
    <3>2. \A x \in w.rows, o \in Pupils : x.kind = "student" => person[o].number # x.number
      BY <1>2, <1>14 DEF IdWorkSound, StillFree, NumberTaken
    <3>3. ASSUME NEW x \in w.rows, at[x] = p, x.kind = "student", q \in Pupils
          PROVE  person'[p].number # person'[q].number
      BY <1>4, <1>13, <3>2, <3>3
    <3>4. ASSUME NEW x \in w.rows, at[x] = q, x.kind = "student", p \in Pupils
          PROVE  person'[p].number # person'[q].number
      BY <1>4, <1>13, <3>2, <3>4
    <3>5. ASSUME NEW x \in w.rows, NEW y \in w.rows, at[x] = p, at[y] = q,
                 x.kind = "student", y.kind = "student"
          PROVE  person'[p].number # person'[q].number
      <4>1. x # y /\ person'[p] = x /\ person'[q] = y
        BY <1>4, <2>1, <3>5
      <4>2. QED
        BY <1>2, <3>5, <4>1 DEF IdWorkSound, RowsApart
    <3>6. QED
      BY <1>13, <3>1, <3>3, <3>4, <3>5
  <2>2. QED
    BY <2>1 DEF NumbersDiffer, Different
<1>15. ASSUME ~ w.met, NEW file \in {w.file} PROVE FileTaken(file)'
  <2>1. WillBeTaken(w.rows, file)
    BY <1>2, <1>15 DEF IdWorkSound, StillFree
  <2>2. \A n : NumberTaken(n) => NumberTaken(n)'
    BY <1>13 DEF NumberTaken
  <2>3. \A x \in w.rows : x.kind = "student" => NumberTaken(x.number)'
    BY <1>4 DEF NumberTaken, Pupils
  <2>4. \A m : MailTaken(m) => MailTaken(m)'
    BY <1>9 DEF MailTaken
  <2>5. \A m : m # NoMail /\ (\E x \in w.rows : x.mail = m) => MailTaken(m)'
    BY <1>4, <1>9 DEF MailTaken
  <2>6. QED
    BY <2>1, <2>2, <2>3, <2>4, <2>5 DEF WillBeTaken, FileTaken
<1>16. QED
  BY <1>1, <1>11, <1>12, <1>14, <1>15 DEF AccountsHold

LEMMA CommitChangeKeeps ==
  ASSUME IdInv, NEW r \in IdReqs, CommitChange(r)
  PROVE  IdInv' /\ AccountsHold
<1>1. PICK w, p : w = idWork[r] /\ p = w.who
  OBVIOUS
<1>2. w \in IdWorks /\ IdWorkSound(w) /\ w.op \in Corrections /\ p \in Persons
  BY <1>1 DEF IdInv, CommitChange, Corrections, IdWorkSound
<1>3. PICK m, n : /\ m = Replaced(w.mail, person[p].mail, KeepMail)
                  /\ n = Replaced(w.number, person[p].number, "keep")
  OBVIOUS
<1>4. person \in [Persons -> People] /\ person[p] \in People
  BY <1>2 DEF IdInv
<1>5. PICK z : z = [person[p] EXCEPT !.mail = m]
  OBVIOUS
<1>6. PICK y : y = [z EXCEPT !.number = n]
  OBVIOUS
<1>7. z = [kind |-> person[p].kind, mail |-> m, number |-> person[p].number, pending |-> person[p].pending]
  BY <1>4, <1>5 DEF People
<1>8. y = [kind |-> person[p].kind, mail |-> m, number |-> n, pending |-> person[p].pending]
  BY <1>6, <1>7
<1>9. m \in Mails /\ n \in Numbers \union {"none"}
  BY <1>2, <1>3, <1>4 DEF Replaced, IdWorks, People
<1>10. y \in People /\ y.kind = person[p].kind /\ y.mail = m /\ y.number = n
  BY <1>4, <1>8, <1>9 DEF People
<1>11. person' = [person EXCEPT ![p] = y]
  <2>1. person' = [person EXCEPT ![p].mail = Replaced(w.mail, @, KeepMail),
                                 ![p].number = Replaced(w.number, @, "keep")]
    BY <1>1 DEF CommitChange
  <2>2. PICK s : s = [person EXCEPT ![p].mail = Replaced(w.mail, @, KeepMail)]
    OBVIOUS
  <2>3. s = [person EXCEPT ![p] = z]
    BY <1>3, <1>5, <2>2
  <2>4. person' = [s EXCEPT ![p].number = Replaced(w.number, @, "keep")]
    BY <2>1, <2>2
  <2>5. s[p] = z /\ z.number = person[p].number
    BY <1>2, <1>4, <1>7, <2>3
  <2>6. person' = [s EXCEPT ![p] = y]
    BY <1>3, <1>6, <2>4, <2>5
  <2>7. QED
    BY <1>4, <2>3, <2>6
<1>12. person' \in [Persons -> People]
  BY <1>4, <1>10, <1>11
<1>13. /\ \A q \in Persons : person'[q].kind = person[q].kind
       /\ \A q \in Persons \ {p} : person'[q] = person[q]
       /\ person'[p] = y
  BY <1>2, <1>4, <1>10, <1>11
<1>14. Registered' = Registered /\ Pupils' = Pupils
  BY <1>13 DEF Registered, Pupils
<1>15. w.mail # KeepMail /\ m # NoMail => \A q \in Registered \ {p} : person[q].mail # m
  BY <1>1, <1>3 DEF CommitChange, UniqueMails, StoredRows, Replaced
<1>16. OneAccountEach'
  <2>1. w.mail = KeepMail => m = person[p].mail
    BY <1>3 DEF Replaced
  <2>2. \A q \in Registered \ {p} : p \in Registered /\ m # NoMail => person[q].mail # m
    BY <1>15, <2>1 DEF IdInv, OneAccountEach
  <2>3. QED
    BY <1>10, <1>13, <1>14, <2>2 DEF IdInv, OneAccountEach, Registered
<1>17. IdInv' /\ \A q \in IdReqs : idWork[q].op # "none" /\ idWork'[q].op = "none" => q = r
  <2>1. PICK gone : gone = {}
    OBVIOUS
  <2>2. idWork' = Overtakes(r, gone)
    BY <2>1 DEF CommitChange
  <2>3. QED
    BY <1>12, <1>16, <2>1, <2>2, IdOvertaken
<1>18. ASSUME ~ w.met, NumbersDiffer PROVE NumbersDiffer'
  <2>1. w.number = "keep" => n = person[p].number
    BY <1>3 DEF Replaced
  <2>2. w.number # "keep" => n = w.number /\ \A q \in Pupils \ {p} : person[q].number # n
    BY <1>1, <1>2, <1>3, <1>18 DEF Replaced, IdWorkSound, StillFree
  <2>3. \A q \in Pupils \ {p} : p \in Pupils => person[q].number # n
    BY <1>18, <2>1, <2>2 DEF NumbersDiffer, Different
  <2>4. QED
    BY <1>10, <1>13, <1>14, <1>18, <2>3 DEF NumbersDiffer, Different, Pupils
<1>19. \A file \in {w.file} : FileTaken(file)'
  <2>1. w.file = <<>>
    BY <1>1, <1>2, IdNamesAssumption DEF IdWorkSound
  <2>2. QED
    BY <2>1, NoFileTaken
<1>20. QED
  BY <1>1, <1>16, <1>17, <1>18, <1>19 DEF AccountsHold

LEMMA IdStepKeeps == IdInv /\ [IdNext]_idVars => IdInv' /\ [AccountsHold]_idVars
<1> SUFFICES ASSUME IdInv, [IdNext]_idVars PROVE IdInv' /\ [AccountsHold]_idVars
  OBVIOUS
<1>1. CASE UNCHANGED idVars
  <2>1. person' = person /\ idWork' = idWork
    BY <1>1 DEF idVars
  <2>2. ASSUME NEW q \in IdReqs PROVE IdWorkSound(idWork[q])'
    <3>1. PICK v : v = idWork'[q]
      OBVIOUS
    <3>2. IdWorkSound(v)
      BY <2>1, <3>1 DEF IdInv
    <3>3. QED
      BY <2>1, <3>1, <3>2
         DEF IdWorkSound, StillFree, WillBeTaken, NumberTaken, MailTaken, Pupils, Registered
  <2>3. IdInv'
    BY <2>1, <2>2 DEF IdInv, OneAccountEach, Registered
  <2>4. QED
    BY <1>1, <2>3
<1>2. ASSUME NEW r \in IdReqs,
             \/ \E m \in Lowered : AskStaff(r, m)
             \/ \E m \in Lowered, n \in Numbers : AskStudent(r, m, n)
             \/ \E file \in Files : AskUpload(r, file)
             \/ \E p \in Persons :
                  \/ \E m \in Lowered : AskMail(r, p, m)
                  \/ \E m \in Lowered \union {KeepMail}, n \in Numbers \union {"keep"} : AskCorrect(r, p, m, n)
                  \/ \E m \in Mails : AskUpdate(r, p, m)
      PROVE  IdInv' /\ AccountsHold
  <2>1. \E w \in IdWorks : AsksFor(r, w) /\ IdWorkSound(w) /\ w.op # "none"
    BY <1>2, StaffAsked, StudentAsked, UploadAsked, MailAsked, CorrectAsked, UpdateAsked
  <2>2. QED
    BY <2>1, AskKeeps
<1>3. ASSUME NEW r \in IdReqs, CommitNew(r) \/ CommitChange(r) \/ DropId(r)
      PROVE  IdInv' /\ AccountsHold
  BY <1>3, CommitNewKeeps, CommitChangeKeeps, DropKeeps
<1>4. ASSUME NEW p \in Persons, Activated(p) \/ Deleted(p)
      PROVE  IdInv' /\ AccountsHold
  BY <1>4, ActivatedKeeps, DeletedKeeps
<1>5. QED
  BY <1>1, <1>2, <1>3, <1>4 DEF IdNext

(* In every reachable state what a request has read and nobody has         *)
(* overtaken still holds, and no two accounts share an address.            *)
THEOREM IdInvariance == IdSpec => []IdInv
<1>1. IdInit => IdInv
  BY IdBegins
<1>2. IdInv /\ [IdNext]_idVars => IdInv'
  BY IdStepKeeps
<1>3. QED
  BY <1>1, <1>2, PTL DEF IdSpec

(* The rows of accounts and what requests hold are of their types. *)
THEOREM IdsTyped == IdSpec => []IdTypeOK
<1>1. IdInv => IdTypeOK
  BY DEF IdInv, IdTypeOK, People, IdWorks, IdOps
<1>2. QED
  BY <1>1, IdInvariance, PTL

(* No two accounts ever share an address; a request that commits before    *)
(* anybody overtakes it keeps the numbers of students different, and an    *)
(* upload leaves every number of its file taken (create_students_bulk(),   *)
(* admin_update_user(), update_pending_staff_email()).                     *)
THEOREM AccountsStayKept == IdSpec => AccountsKept
<1>1. IdInv /\ [IdNext]_idVars => [AccountsHold]_idVars
  BY IdStepKeeps
<1>2. QED
  BY <1>1, IdInvariance, PTL DEF IdSpec, AccountsKept, AccountsHold

---------------------------------------------------------------------------
(* The organisation as a whole                                             *)

LEMMA OrgPartsStep ==
  ASSUME [OrgNext]_<<focus, vars, officeVars>>
  PROVE  /\ [Next]_vars /\ [RoleNext]_roleVars /\ [IdNext]_idVars
         /\ [MineNext]_mineVars /\ [ListNext]_listVars /\ [QueueNext]_queueVars
BY DEF OrgNext, OfficeNext, ReadNext, officeVars, readVars

(* A step of one part leaves alone what the others keep, so what is proved *)
(* of an exam, roles, accounts, lists and queue, each by itself, holds of  *)
(* the composed specification.                                             *)
THEOREM OrgIsItsParts ==
  OrgSpec => Spec /\ RoleSpec /\ IdSpec /\ MineSpec /\ ListSpec /\ QueueSpec
<1>1. OrgInit => Init /\ RoleInit /\ IdInit /\ MineInit /\ ListInit /\ QueueInit
  BY DEF OrgInit
<1>2. QED
  BY <1>1, OrgPartsStep, PTL
     DEF OrgSpec, Spec, RoleSpec, IdSpec, MineSpec, ListSpec, QueueSpec

(* The exam, roles, accounts and what the lists ask about have their       *)
(* types.                                                                  *)
THEOREM OrgTyped == OrgSpec => []OrgTypeOK
BY OrgIsItsParts, TypeCorrect, RolesTyped, IdsTyped, MineTyped, ListsTyped, QueueTyped, PTL
   DEF OrgTypeOK

=============================================================================
