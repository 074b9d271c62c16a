------------------------------ MODULE Sessions ------------------------------
(***************************************************************************)
(* The tokens of one person who belongs to several organisations (jwt.py,  *)
(* auth_dependencies.py, workspace_service.py and login, refresh, logout   *)
(* and switch-organization of routes/auth.py).                             *)
(*                                                                         *)
(* Time passes in ticks, several to a second: tokens expire on whole       *)
(* seconds and Redis is told whole seconds. Every call to Redis is a step  *)
(* of its own. A token that has expired is forgotten and its id is free    *)
(* again. Left out: passwords, what a token says of permissions, which     *)
(* organisation is signed in to first, and tokens of people without one.   *)
(***************************************************************************)
EXTENDS Integers

CONSTANTS
  SessionReqs,   \* requests in flight
  MaxTokens,     \* bound: tokens of each kind alive at once
  Orgs,
  Second,        \* ticks in a second
  AccessLife,    \* seconds
  RefreshLife

ASSUME SecondAssumption == Second \in Nat \ {0}
ASSUME TokensAssumption == MaxTokens \in Nat
ASSUME LivesAssumption == AccessLife \in Nat \ {0} /\ RefreshLife \in Nat \ {0}

TokenIds == {"access", "refresh"} \X (1..MaxTokens)
NoId     == <<"none", 0>>

VARIABLES
  joined,    \* organisations with an active membership
  token,     \* [org, life, block] of each id, its kind and number
  phase,     \* ticks since the second began
  signing    \* what each request is about to do

sessionVars == <<joined, token, phase, signing>>

(* life: ticks until it expires. block: ticks until its blacklist entry    *)
(* goes.                                                                   *)
NoToken == [org |-> "none", life |-> 0, block |-> 0]
NoSigning == [at |-> "idle", org |-> "none", access |-> NoId, refresh |-> NoId, ttl |-> 0]

SessionInit ==
  /\ joined = {}
  /\ token = [t \in TokenIds |-> NoToken]
  /\ phase = 0
  /\ signing = [r \in SessionReqs |-> NoSigning]

Live(t, kind) == t \in TokenIds /\ t[1] = kind /\ token[t].life > 0
Accepted(t, kind) == Live(t, kind) /\ token[t].block = 0

(* get_user_context() *)
ActsAt(t) == IF Accepted(t, "access") THEN {token[t].org} \intersect joined ELSE {}

Go(r, at)   == signing' = [signing EXCEPT ![r].at = at]
Answered(r) == signing' = [signing EXCEPT ![r] = NoSigning]

(* Token ids are random; the lowest that is free stands for them. *)
Named == UNION {{signing[r].access, signing[r].refresh} : r \in SessionReqs}
Unused(kind) == {t \in TokenIds : t[1] = kind /\ token[t] = NoToken} \ Named
Lowest(S)    == {t \in S : \A u \in S : t[2] <= u[2]}

(* exp is cut to whole seconds. *)
Made(org, life) == [org |-> org, life |-> life * Second - phase, block |-> 0]

(* session_response() *)
MakePair(org) == \E a \in Lowest(Unused("access")), b \in Lowest(Unused("refresh")) :
  token' = [token EXCEPT ![a] = Made(org, AccessLife), ![b] = Made(org, RefreshLife)]

(* pick(): the preferred organisation, else the oldest membership. *)
Pick(preferred) == IF preferred \in joined THEN {preferred} ELSE joined

---------------------------------------------------------------------------
(* Memberships are read and tokens made in one step: a membership that     *)
(* goes in between could as well go right after.                           *)

(* login(), to the organisation that was used last or any. *)
SignIn(r) ==
  /\ signing[r].at = "idle"
  /\ \E preferred \in Orgs \union {"none"} : \E org \in Pick(preferred) : MakePair(org)
  /\ UNCHANGED <<joined, phase, signing>>

---------------------------------------------------------------------------
(* Refreshing *)

RefreshCheck(r, t) ==
  /\ signing[r].at = "idle" /\ Accepted(t, "refresh")
  /\ signing' = [signing EXCEPT ![r].at = "load", ![r].org = token[t].org]
  /\ UNCHANGED <<joined, token, phase>>

(* _load_refresh_subject() *)
RefreshMake(r) ==
  /\ signing[r].at = "load"
  /\ \E org \in Pick(signing[r].org), t \in Lowest(Unused("access")) :
       token' = [token EXCEPT ![t] = Made(org, AccessLife)]
  /\ Answered(r)
  /\ UNCHANGED <<joined, phase>>

---------------------------------------------------------------------------
(* Switching and signing out *)

SwitchCheck(r, a, b, org) ==
  /\ signing[r].at = "idle" /\ ActsAt(a) \notin {{}, {org}} /\ Live(b, "refresh")
  /\ signing' = [signing EXCEPT ![r] = [NoSigning EXCEPT !.at = "switch", !.access = a, !.refresh = b, !.org = org]]
  /\ UNCHANGED <<joined, token, phase>>

SwitchMake(r) ==
  /\ signing[r].at = "switch" /\ signing[r].org \in joined
  /\ MakePair(signing[r].org)
  /\ signing' = [signing EXCEPT ![r].at = "revoke", ![r].org = "none"]
  /\ UNCHANGED <<joined, phase>>

(* Faulty variant, for a mutant: every entry lives as long as an access    *)
(* token.                                                                  *)
TtlOfAccess(t) == IF token[t].life >= Second THEN AccessLife ELSE 0

(* int(exp - now) *)
Ttl(t) == token[t].life \div Second

(* An expired token is left alone. *)
Blacklist(t, ttl) ==
  token' = IF t \notin TokenIds \/ token[t] = NoToken \/ ttl = 0 THEN token
           ELSE [token EXCEPT ![t].block = ttl * Second]

RevokeAccess(r) ==
  /\ signing[r].at = "revoke"
  /\ Blacklist(signing[r].access, Ttl(signing[r].access))
  /\ Go(r, "revokeRefresh")
  /\ UNCHANGED <<joined, phase>>

RevokeRefresh(r) ==
  /\ signing[r].at = "revokeRefresh"
  /\ Blacklist(signing[r].refresh, Ttl(signing[r].refresh))
  /\ Answered(r)
  /\ UNCHANGED <<joined, phase>>

(* Whether they were revoked is not asked. Both lifetimes are counted from *)
(* the same moment.                                                        *)
LogoutAccess(r, a, b) ==
  /\ signing[r].at = "idle" /\ Live(a, "access") /\ Live(b, "refresh")
  /\ Blacklist(a, Ttl(a))
  /\ signing' = [signing EXCEPT ![r] = [NoSigning EXCEPT !.at = "logout", !.access = a, !.refresh = b, !.ttl = Ttl(b)]]
  /\ UNCHANGED <<joined, phase>>

LogoutRefresh(r) ==
  /\ signing[r].at = "logout"
  /\ Blacklist(signing[r].refresh, signing[r].ttl)
  /\ Answered(r)
  /\ UNCHANGED <<joined, phase>>

(* Redis or the process fails, or there is no membership. *)
SigningFails(r) ==
  /\ signing[r].at # "idle"
  /\ Answered(r)
  /\ UNCHANGED <<joined, token, phase>>

---------------------------------------------------------------------------
(* Memberships come and go (Onboarding), and time passes. *)

MembershipChanges(org) ==
  /\ joined' = IF org \in joined THEN joined \ {org} ELSE joined \union {org}
  /\ UNCHANGED <<token, phase, signing>>

Less(n) == IF n > 0 THEN n - 1 ELSE 0

Tick ==
  /\ phase' = (phase + 1) % Second
  /\ token' = [t \in TokenIds |->
       IF token[t].life <= 1 THEN NoToken
       ELSE [token[t] EXCEPT !.life = @ - 1, !.block = Less(@)]]
  /\ UNCHANGED <<joined, signing>>

SessionNext ==
  \/ \E r \in SessionReqs :
       \/ SignIn(r) \/ RefreshMake(r)
       \/ SwitchMake(r) \/ RevokeAccess(r) \/ RevokeRefresh(r)
       \/ LogoutRefresh(r) \/ SigningFails(r)
  \/ \E r \in SessionReqs, t \in TokenIds : RefreshCheck(r, t)
  \/ \E r \in SessionReqs, a, b \in TokenIds :
       \/ LogoutAccess(r, a, b)
       \/ \E org \in Orgs : SwitchCheck(r, a, b, org)
  \/ \E org \in Orgs : MembershipChanges(org)
  \/ Tick

SessionSpec == SessionInit /\ [][SessionNext]_sessionVars

---------------------------------------------------------------------------
(* What holds *)

Stages == {"idle", "load", "switch", "revoke", "revokeRefresh", "logout"}

SessionTypeOK ==
  /\ joined \subseteq Orgs
  /\ phase \in 0..(Second - 1)
  /\ \A t \in TokenIds : token[t] \in
       [org : Orgs \union {"none"}, life : Nat, block : Nat]
  /\ \A r \in SessionReqs : signing[r] \in
       [at : Stages, org : Orgs \union {"none"},
        access : TokenIds \union {NoId}, refresh : TokenIds \union {NoId}, ttl : Nat]

Gone(t) == token'[t].block > 0 \/ token'[t].life < Second

(* Both tokens are of no more use once they have been exchanged for those  *)
(* of another organisation or signed out, and a revoked one stays so, but  *)
(* for the last second of its life (auth.py: "Blacklist a token until it   *)
(* would have expired anyway"): in any order of requests, and however long *)
(* one takes.                                                              *)
SessionsKept == [][
  /\ \A t \in TokenIds :
       token[t].block > 0 /\ token'[t].block = 0 => token'[t].life < Second
  /\ \A r \in SessionReqs : RevokeRefresh(r) \/ LogoutRefresh(r) =>
       Gone(signing[r].access) /\ Gone(signing[r].refresh)]_sessionVars

=============================================================================
