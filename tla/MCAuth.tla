------------------------------- MODULE MCAuth -------------------------------
(***************************************************************************)
(* The auth components in one instance. They share no variable, so a       *)
(* behaviour follows one of them, the focus, while the others stay in      *)
(* their initial state: the sum of their state spaces is explored, not the *)
(* product.                                                                *)
(***************************************************************************)
EXTENDS OtpCodes, Cohorts, OrgOpening, Onboarding, Sessions, Credentials, TLC

CONSTANT Parts   \* the components to explore

VARIABLE focus

authVars == <<focus, codeVars, rollVars, openVars, peopleVars, sessionVars, wayVars>>

AuthInit ==
  /\ focus \in Parts
  /\ CodeInit /\ CohortInit /\ OpenInit /\ PeopleInit /\ SessionInit /\ WayInit
  /\ focus # "cohorts" => pupil = [s \in Pupils |-> "out"]
  /\ focus # "opening" => offered
  /\ focus # "credentials" => way.kind = "student" /\ way.box = CHOOSE box \in Boxes : TRUE

AuthNext ==
  /\ UNCHANGED focus
  /\ \/ /\ focus = "codes" /\ CodeNext
        /\ UNCHANGED <<rollVars, openVars, peopleVars, sessionVars, wayVars>>
     \/ /\ focus = "cohorts" /\ CohortNext
        /\ UNCHANGED <<codeVars, openVars, peopleVars, sessionVars, wayVars>>
     \/ /\ focus = "opening" /\ OpenNext
        /\ UNCHANGED <<codeVars, rollVars, peopleVars, sessionVars, wayVars>>
     \/ /\ focus = "people" /\ PeopleNext
        /\ UNCHANGED <<codeVars, rollVars, openVars, sessionVars, wayVars>>
     \/ /\ focus = "sessions" /\ SessionNext
        /\ UNCHANGED <<codeVars, rollVars, openVars, peopleVars, wayVars>>
     \/ /\ focus = "credentials" /\ WayNext
        /\ UNCHANGED <<codeVars, rollVars, openVars, peopleVars, sessionVars>>

AuthSpec == AuthInit /\ [][AuthNext]_authVars

(* Every variable has its type. *)
AuthTypeOK ==
  /\ CodeTypeOK /\ CohortTypeOK /\ OpenTypeOK /\ PeopleTypeOK
  /\ SessionTypeOK /\ WayTypeOK

Interchangeable == Permutations(RollReqs) \union Permutations(CohortIds)
=============================================================================
