--------------------------- MODULE MCOrganisation ---------------------------
(***************************************************************************)
(* What happens in one organisation besides teaching: an exam's life, the  *)
(* roles, the accounts, and what people find on their lists. The parts     *)
(* share no variable, so a behaviour follows one of them, the focus, while *)
(* the others stay in their initial state: the sum of their state spaces   *)
(* is explored, not the product. The properties of what is read begin with *)
(* the case of a step that is another part's.                              *)
(***************************************************************************)
EXTENDS MCExamWorkflow, Permissions, Accounts, MyExams, Listings, MarkingQueue

CONSTANT Parts   \* the parts to explore

VARIABLE focus

readVars   == <<mineVars, listVars, queueVars>>
officeVars == <<roleVars, idVars, readVars>>

OrgInit ==
  /\ focus \in Parts
  /\ Init /\ RoleInit /\ IdInit /\ MineInit /\ ListInit /\ QueueInit
  /\ focus # "exams" => ~ topics
  /\ focus # "roles" => holds = [s \in Assistants |-> [base |-> "staff", id |-> "none"]]
  /\ focus # "mine" => window = [start |-> Never, end |-> Never] /\ allowed = 1
  /\ focus # "lists" =>
       token = "staff" /\ itsExam.window = [start |-> Unset, end |-> Unset] /\ itsExam.mine
  /\ focus # "queue" => written = {}

ReadNext ==
  \/ focus = "mine" /\ MineNext /\ UNCHANGED <<listVars, queueVars>>
  \/ focus = "lists" /\ ListNext /\ UNCHANGED <<mineVars, queueVars>>
  \/ focus = "queue" /\ QueueNext /\ UNCHANGED <<mineVars, listVars>>

OfficeNext ==
  \/ focus = "roles" /\ RoleNext /\ UNCHANGED <<idVars, readVars>>
  \/ focus = "accounts" /\ IdNext /\ UNCHANGED <<roleVars, readVars>>
  \/ ReadNext /\ UNCHANGED <<roleVars, idVars>>

OrgNext ==
  /\ UNCHANGED focus
  /\ \/ focus = "exams" /\ Next /\ UNCHANGED officeVars
     \/ OfficeNext /\ UNCHANGED vars

OrgSpec == OrgInit /\ [][OrgNext]_<<focus, vars, officeVars>>

(* Every variable has its type. *)
OrgTypeOK == TypeOK /\ RoleTypeOK /\ IdTypeOK /\ MineTypeOK /\ ListTypeOK /\ QueueTypeOK

(* Exams open at all times, for two days, from the second on, until the    *)
(* first is over, and for the first half of it.                            *)
MCWindows ==
  {[start |-> w[1], end |-> w[2]] :
     w \in {<<Never, Never>>, <<1, 2>>, <<2, Never>>, <<Never, 1>>, <<0, 1>>}}

(* The same kinds on a list, and one that closes before it opens.          *)
MCExamWindows ==
  {[start |-> w[1], end |-> w[2]] :
     w \in {<<Unset, Unset>>, <<1, 2>>, <<2, 1>>, <<1, Unset>>, <<Unset, 1>>}}

(* Two roles that somebody who may manage roles would make. *)
MCPayload ==
  [people |-> [Granted({"staff.manage", "roles.manage"}, AllReach) EXCEPT !["exams.create"] = AllReach],
   exams  |-> Granted({"exams.view"}, AllReach)]

Interchangeable == Permutations(RoleReqs) \union Permutations(Assistants)
=============================================================================
