------------------------------- MODULE Access -------------------------------
(***************************************************************************)
(* Who may run the operations of module Roles.                             *)
(*                                                                         *)
(* The permissions of a user are read from the tables when a token pair is *)
(* issued (internal/auth/service.go), signed into an access token          *)
(* (internal/token/jwt.go) and from then on trusted until the token        *)
(* expires: RequireAuth and RequirePermission (internal/auth/middleware.go)*)
(* look at the token and never at the tables.  The admin routes all want   *)
(* the one permission manage:roles (cmd/server/main.go).                   *)
(*                                                                         *)
(* Time is kept as ages and remaining lifetimes, in ticks that are longer  *)
(* than the 30 s a request may last.                                       *)
(***************************************************************************)
EXTENDS Roles

CONSTANTS
    Manage,     \* the scope manage:roles
    AccessTTL,  \* lifetime of an access token, in ticks
    Login,      \* slots for logins and refreshes in flight
    MaxJwts     \* bound on the access tokens in the hands of clients

ASSUME AccessConstantsOK ==
    /\ Manage \in Scope /\ AccessTTL \in Nat \ {0} /\ MaxJwts \in Nat
    /\ None \notin [user : User, age : 0 .. 1]

VARIABLES
    jwts,     \* access tokens the clients hold, with the ticks they still have
    issuing,  \* logins and refreshes between GetUserPermissions and the answer
    actor,    \* admin requests past the middleware: on behalf of whom, for how long
    age       \* history: ticks since the user last held manage:roles in the tables

accessVars == <<jwts, issuing, actor, age>>
allVars == <<vars, accessVars>>

Forever == AccessTTL + 3

Jwt == [user : User, scopes : SUBSET Scope, ttl : 0 .. AccessTTL]

AccessInit ==
    /\ Init
    /\ jwts = {}
    /\ issuing = [k \in Login |-> None]
    /\ actor = [r \in Req |-> None]
    /\ age = [u \in User |-> Forever]

-----------------------------------------------------------------------------
(* Issuing access tokens                                                   *)

\* The last statement before the token is signed.
ReadPermissions(k, u) ==
    /\ issuing[k] = None /\ u \in DOMAIN active
    /\ issuing' = [issuing EXCEPT ![k] = [user |-> u, scopes |-> Effective(u), age |-> 0]]
    /\ UNCHANGED <<tables, req, jwts, actor>>

\* Mutant: the wrong lifetime.
SignTooLong(k) ==
    /\ issuing[k] # None /\ Cardinality(jwts) < MaxJwts
    /\ jwts' = jwts \cup {[user |-> issuing[k].user, scopes |-> issuing[k].scopes,
                           ttl |-> AccessTTL + 1]}
    /\ issuing' = [issuing EXCEPT ![k] = None]
    /\ UNCHANGED <<tables, req, actor>>

SignAccessToken(k) ==
    /\ issuing[k] # None /\ Cardinality(jwts) < MaxJwts
    /\ jwts' = jwts \cup {[user |-> issuing[k].user, scopes |-> issuing[k].scopes,
                           ttl |-> AccessTTL]}
    /\ issuing' = [issuing EXCEPT ![k] = None]
    /\ UNCHANGED <<tables, req, actor>>

\* The INSERT of the refresh token fails or the answer is lost.
IssueFails(k) ==
    /\ Faults /\ issuing[k] # None
    /\ issuing' = [issuing EXCEPT ![k] = None]
    /\ UNCHANGED <<tables, req, jwts, actor>>

-----------------------------------------------------------------------------
(* The middleware                                                          *)

\* Mutant: exp is not verified.
VerifySignatureOnly(t) == TRUE

VerifyAccessToken(t) == t.ttl > 0

\* Mutant: the middleware is missing from the group of admin routes.
RequireNothing(t) == TRUE

RequirePermission(t) == Manage \in t.scopes

Admit(r, t) ==
    /\ actor[r] = None
    /\ VerifyAccessToken(t) /\ RequirePermission(t)
    /\ actor' = [actor EXCEPT ![r] = [user |-> t.user, age |-> 0]]
    /\ UNCHANGED <<tables, req, jwts, issuing>>

\* The handler runs its next statement; after the last one it is done.
Act(r) ==
    /\ actor[r] # None
    /\ (req[r] = Idle /\ Statement) \/ Begin(r) \/ Continue(r)
    /\ actor' = IF req'[r] = Idle THEN [actor EXCEPT ![r] = None] ELSE actor
    /\ UNCHANGED <<jwts, issuing>>

\* 400 for a malformed request, 500 when its only statement fails.
Reject(r) ==
    /\ actor[r] # None /\ req[r] = Idle
    /\ actor' = [actor EXCEPT ![r] = None]
    /\ UNCHANGED <<tables, req, jwts, issuing>>

-----------------------------------------------------------------------------
(* Outside the admin routes                                                *)

\* Open to all as POST /auth/register: POST /admin/users allows nothing more.
SignUp(u) == Register(u) /\ UNCHANGED <<jwts, issuing, actor>>

\* README "Bootstrap del primer admin": an INSERT typed into psql.
Bootstrap(u) ==
    /\ \E i \in DOMAIN roles : roles[i] = Admin /\ AssignRoleToUser(u, i)
    /\ UNCHANGED <<jwts, issuing, actor>>

\* A restart, perhaps with another key pair: no older token verifies any more.
Restart ==
    /\ Crash
    /\ jwts' \in {jwts, {}}
    /\ issuing' = [k \in Login |-> None]
    /\ actor' = [r \in Req |-> None]

Older(e) == IF e = None THEN None ELSE [e EXCEPT !.age = @ + 1]

\* No request outlives two ticks.  A token is forgotten one tick after it expired.
Tick ==
    /\ \A k \in Login : issuing[k] # None => issuing[k].age = 0
    /\ \A r \in Req : actor[r] # None => actor[r].age = 0
    /\ jwts' = {[t EXCEPT !.ttl = @ - 1] : t \in {x \in jwts : x.ttl > 0}}
    /\ issuing' = [k \in Login |-> Older(issuing[k])]
    /\ actor' = [r \in Req |-> Older(actor[r])]
    /\ UNCHANGED <<tables, req>>

\* age follows the tables: 0 while the user holds manage:roles.
Observe(ticks) ==
    age' = [u \in User |->
              IF Manage \in Effective(u)' THEN 0
              ELSE IF age[u] + ticks < Forever THEN age[u] + ticks ELSE Forever]

Request ==
    \/ \E u \in User : SignUp(u) \/ Bootstrap(u)
    \/ \E k \in Login, u \in User : ReadPermissions(k, u)
    \/ \E k \in Login : SignAccessToken(k) \/ IssueFails(k)
    \/ \E r \in Req, t \in jwts : Admit(r, t)
    \/ \E r \in Req : Act(r) \/ Reject(r)
    \/ Restart

AccessNext ==
    \/ Request /\ Overtake /\ Observe(0)
    \/ Tick /\ Overtake /\ Observe(1)

AccessSpec == AccessInit /\ [][AccessNext]_allVars

-----------------------------------------------------------------------------
(* Properties                                                              *)

\* The tables, the tokens and the requests have their types, and a handler of an admin
\* route runs only on behalf of a user the middleware (middleware.go:18-70) let in.
AccessTypeOK ==
    /\ TypeOK
    /\ jwts \subseteq Jwt
    /\ \A k \in Login : \/ issuing[k] = None
                        \/ issuing[k] \in [user : User, scopes : SUBSET Scope, age : 0 .. 1]
    /\ \A r \in Req : actor[r] = None \/ actor[r] \in [user : User, age : 0 .. 1]
    /\ \A r \in Req : actor[r] = None => req[r] = Idle
    /\ age \in [User -> 0 .. Forever]

\* An admin operation in flight was authorised by permissions that the tables gave its
\* user at most the lifetime of an access token ago, and the tick either request may
\* take: a revoked or deactivated admin, and one whose role is gone, is powerless then.
StalePowerExpires ==
    \A r \in Req : actor[r] # None => age[actor[r].user] <= AccessTTL + 1

\* Nobody holds manage:roles, in the tables, in a token or in a request in flight.
Locked ==
    /\ \A u \in User : Manage \notin Effective(u)
    /\ \A k \in Login : issuing[k] # None => Manage \notin issuing[k].scopes
    /\ \A t \in jwts : VerifyAccessToken(t) => Manage \notin t.scopes
    /\ \A r \in Req : actor[r] = None

\* Nobody who lacks manage:roles can give it to himself or to another: when the last
\* trace of it is gone, only a new row in user_roles, which then has to come from
\* psql, brings it back.
LockoutIsFinal == [][Locked /\ userRoles' = userRoles => Locked']_allVars
=============================================================================
