---------------------------- MODULE AccessProofs ----------------------------
(***************************************************************************)
(* Proofs about module Access, for any lifetime of access tokens and any   *)
(* number of users, tokens and requests.                                   *)
(***************************************************************************)
EXTENDS Access, RolesProofs

Issuing == [user : User, scopes : SUBSET Scope, age : 0 .. 1]

Actor == [user : User, age : 0 .. 1]

\* AccessTypeOK without the tables and the handlers.
TokensOK ==
    /\ jwts \subseteq Jwt
    /\ \A k \in Login : issuing[k] = None \/ issuing[k] \in Issuing
    /\ \A r \in Req : actor[r] = None \/ actor[r] \in Actor
    /\ age \in [User -> 0 .. Forever]
    /\ DOMAIN issuing = Login /\ DOMAIN actor = Req

\* How long ago the user of a token, or of the request for it, last held manage:roles:
\* the age of the permissions when they were signed, and what the token has aged since.
PowerIsRecent ==
    /\ \A k \in Login : issuing[k] # None /\ Manage \in issuing[k].scopes =>
         age[issuing[k].user] <= issuing[k].age
    /\ \A t \in jwts : t.ttl > 0 /\ Manage \in t.scopes =>
         age[t.user] + t.ttl <= AccessTTL + 1
    /\ \A r \in Req : actor[r] # None => age[actor[r].user] <= AccessTTL + actor[r].age

\* The history never grows by more than the ticks that pass.
LEMMA AgeBound ==
    ASSUME age \in [User -> 0 .. Forever], NEW n \in {0, 1}, Observe(n)
    PROVE  /\ age' \in [User -> 0 .. Forever]
           /\ \A u \in User : age'[u] \in Nat /\ age[u] \in Nat /\ age'[u] <= age[u] + n
           /\ \A u \in User : Manage \in Effective(u)' => age'[u] = 0
<1>1. Forever \in Nat
  BY AccessConstantsOK DEF Forever
<1>2. \A u \in User : age'[u] = IF Manage \in Effective(u)' THEN 0
                               ELSE IF age[u] + n < Forever THEN age[u] + n ELSE Forever
  BY DEF Observe
<1>3. \A u \in User : age[u] \in 0 .. Forever
  OBVIOUS
<1>4. \A u \in User : /\ age'[u] \in 0 .. Forever /\ age'[u] <= age[u] + n
                      /\ Manage \in Effective(u)' => age'[u] = 0
  BY <1>1, <1>2, <1>3
<1>5. age' \in [User -> 0 .. Forever]
  BY <1>4 DEF Observe
<1> QED
  BY <1>1, <1>3, <1>4, <1>5

\* What a request does to the tokens and to who acts.
LEMMA TokenMoves ==
    ASSUME TokensOK, Request
    PROVE  \/ jwts' \subseteq jwts /\ issuing' = issuing /\ actor' = actor
           \/ \E k \in Login, u \in User :
                /\ issuing' = [issuing EXCEPT ![k] =
                                 [user |-> u, scopes |-> Effective(u), age |-> 0]]
                /\ jwts' = jwts /\ actor' = actor /\ UNCHANGED tables
           \/ \E k \in Login :
                /\ issuing[k] # None
                /\ issuing' = [issuing EXCEPT ![k] = None]
                /\ actor' = actor
                /\ \/ jwts' = jwts
                   \/ jwts' = jwts \cup {[user |-> issuing[k].user,
                                          scopes |-> issuing[k].scopes, ttl |-> AccessTTL]}
           \/ \E r \in Req, t \in jwts :
                /\ t.ttl > 0 /\ Manage \in t.scopes
                /\ actor' = [actor EXCEPT ![r] = [user |-> t.user, age |-> 0]]
                /\ jwts' = jwts /\ issuing' = issuing
           \/ \E r \in Req :
                /\ actor' = [actor EXCEPT ![r] = None]
                /\ jwts' = jwts /\ issuing' = issuing
           \/ /\ jwts' \subseteq jwts
              /\ issuing' = [k \in Login |-> None] /\ actor' = [r \in Req |-> None]
<1>1. CASE \E u \in User : SignUp(u) \/ Bootstrap(u)
  BY <1>1 DEF SignUp, Bootstrap
<1>2. CASE \E k \in Login, u \in User : ReadPermissions(k, u)
  BY <1>2 DEF ReadPermissions
<1>3. CASE \E k \in Login : SignAccessToken(k) \/ IssueFails(k)
  BY <1>3 DEF SignAccessToken, IssueFails
<1>4. CASE \E r \in Req, t \in jwts : Admit(r, t)
  BY <1>4 DEF Admit, VerifyAccessToken, RequirePermission
<1>5. CASE \E r \in Req : Act(r) \/ Reject(r)
  BY <1>5 DEF Act, Reject
<1>6. CASE Restart
  BY <1>6 DEF Restart
<1> QED
  BY <1>1, <1>2, <1>3, <1>4, <1>5, <1>6 DEF Request

LEMMA EffectiveScopes ==
    ASSUME TablesOK, NEW u
    PROVE  Effective(u) \in SUBSET Scope
<1>1. \A g \in grants : g[2] \in DOMAIN perms /\ perms[g[2]] \in Permission
  BY DEF TablesOK
<1> QED
  BY <1>1, TableConstantsOK DEF Effective

LEMMA RequestKeeps ==
    ASSUME TablesOK, TokensOK, PowerIsRecent, Request, Observe(0)
    PROVE  TokensOK' /\ PowerIsRecent'
<1>1. /\ age' \in [User -> 0 .. Forever]
      /\ \A u \in User : age'[u] \in Nat /\ age[u] \in Nat /\ age'[u] <= age[u]
      /\ \A u \in User : Manage \in Effective(u)' => age'[u] = 0
  BY AgeBound DEF TokensOK
<1>2. AccessTTL \in Nat /\ AccessTTL > 0
  BY AccessConstantsOK
<1>3. /\ \A t \in jwts : t.user \in User /\ t.ttl \in Nat /\ t \in Jwt
      /\ \A k \in Login : issuing[k] # None => /\ issuing[k].user \in User
                                               /\ issuing[k].age \in Nat /\ issuing[k].age <= 1
                                               /\ issuing[k].scopes \in SUBSET Scope
      /\ \A r \in Req : actor[r] # None => actor[r].user \in User /\ actor[r].age \in Nat
  BY <1>2 DEF TokensOK, Jwt, Issuing, Actor
\* What stays as it was is as recent as it was.
<1>4. /\ \A k \in Login : issuing[k] # None /\ Manage \in issuing[k].scopes =>
           age'[issuing[k].user] <= issuing[k].age
      /\ \A t \in jwts : t.ttl > 0 /\ Manage \in t.scopes => age'[t.user] + t.ttl <= AccessTTL + 1
      /\ \A r \in Req : actor[r] # None => age'[actor[r].user] <= AccessTTL + actor[r].age
  <2>1. \A k \in Login : issuing[k] # None /\ Manage \in issuing[k].scopes =>
           age'[issuing[k].user] <= issuing[k].age
    BY <1>1, <1>3 DEF PowerIsRecent
  <2>2. \A t \in jwts : t.ttl > 0 /\ Manage \in t.scopes => age'[t.user] + t.ttl <= AccessTTL + 1
    BY <1>1, <1>2, <1>3 DEF PowerIsRecent
  <2>3. \A r \in Req : actor[r] # None => age'[actor[r].user] <= AccessTTL + actor[r].age
    BY <1>1, <1>2, <1>3 DEF PowerIsRecent
  <2> QED
    BY <2>1, <2>2, <2>3
<1>5. CASE jwts' \subseteq jwts /\ issuing' = issuing /\ actor' = actor
  BY <1>1, <1>4, <1>5 DEF TokensOK, PowerIsRecent
<1>6. ASSUME NEW k \in Login, NEW u \in User, UNCHANGED tables, jwts' = jwts, actor' = actor,
             issuing' = [issuing EXCEPT ![k] = [user |-> u, scopes |-> Effective(u), age |-> 0]]
      PROVE  TokensOK' /\ PowerIsRecent'
  <2> DEFINE new == [user |-> u, scopes |-> Effective(u), age |-> 0]
  <2>1. new \in Issuing
    BY EffectiveScopes DEF Issuing
  <2>2. Manage \in new.scopes => age'[new.user] <= new.age
    BY <1>1, <1>6 DEF Effective, tables
  <2>3. DOMAIN issuing' = Login /\ \A j \in Login : issuing'[j] = IF j = k THEN new ELSE issuing[j]
    BY <1>6 DEF TokensOK
  <2> HIDE DEF new
  <2> QED
    BY <1>1, <1>4, <1>6, <2>1, <2>2, <2>3 DEF TokensOK, PowerIsRecent
<1>7. ASSUME NEW k \in Login, issuing[k] # None, issuing' = [issuing EXCEPT ![k] = None],
             actor' = actor,
             \/ jwts' = jwts
             \/ jwts' = jwts \cup {[user |-> issuing[k].user,
                                    scopes |-> issuing[k].scopes, ttl |-> AccessTTL]}
      PROVE  TokensOK' /\ PowerIsRecent'
  <2> DEFINE new == [user |-> issuing[k].user, scopes |-> issuing[k].scopes, ttl |-> AccessTTL]
  <2>1. new \in Jwt
    BY <1>2, <1>3, <1>7 DEF Jwt
  <2>2. Manage \in new.scopes => age'[new.user] + new.ttl <= AccessTTL + 1
    BY <1>1, <1>2, <1>3, <1>4, <1>7
  <2>3. DOMAIN issuing' = Login /\ \A j \in Login : issuing'[j] = IF j = k THEN None ELSE issuing[j]
    BY <1>7 DEF TokensOK
  <2>4. jwts' \subseteq jwts \cup {new}
    BY <1>7
  <2> HIDE DEF new
  <2> QED
    BY <1>1, <1>4, <1>7, <2>1, <2>2, <2>3, <2>4 DEF TokensOK, PowerIsRecent
<1>8. ASSUME NEW r \in Req, NEW t \in jwts, t.ttl > 0, Manage \in t.scopes,
             actor' = [actor EXCEPT ![r] = [user |-> t.user, age |-> 0]],
             jwts' = jwts, issuing' = issuing
      PROVE  TokensOK' /\ PowerIsRecent'
  <2> DEFINE new == [user |-> t.user, age |-> 0]
  <2>1. new \in Actor
    BY <1>3 DEF Actor
  <2>2. age'[t.user] + t.ttl <= AccessTTL + 1 /\ age'[t.user] \in Nat /\ t.ttl \in Nat
    BY <1>1, <1>3, <1>4, <1>8
  <2>3. age'[new.user] <= AccessTTL + new.age
    BY <1>2, <1>8, <2>2
  <2>4. DOMAIN actor' = Req /\ \A s \in Req : actor'[s] = IF s = r THEN new ELSE actor[s]
    BY <1>8 DEF TokensOK
  <2> HIDE DEF new
  <2> QED
    BY <1>1, <1>4, <1>8, <2>1, <2>3, <2>4 DEF TokensOK, PowerIsRecent
<1>9. ASSUME NEW r \in Req, actor' = [actor EXCEPT ![r] = None], jwts' = jwts, issuing' = issuing
      PROVE  TokensOK' /\ PowerIsRecent'
  BY <1>1, <1>4, <1>9 DEF TokensOK, PowerIsRecent
<1>10. CASE /\ jwts' \subseteq jwts
            /\ issuing' = [k \in Login |-> None] /\ actor' = [r \in Req |-> None]
  BY <1>1, <1>4, <1>10 DEF TokensOK, PowerIsRecent
<1> QED
  BY <1>5, <1>6, <1>7, <1>8, <1>9, <1>10, TokenMoves

LEMMA TickKeeps ==
    ASSUME TokensOK, PowerIsRecent, Tick, Observe(1)
    PROVE  TokensOK' /\ PowerIsRecent'
<1>1. /\ age' \in [User -> 0 .. Forever]
      /\ \A u \in User : age'[u] \in Nat /\ age[u] \in Nat /\ age'[u] <= age[u] + 1
  BY AgeBound DEF TokensOK
<1>2. AccessTTL \in Nat
  BY AccessConstantsOK
<1>3. \A t \in jwts' : \E x \in jwts : x \in Jwt /\ x.ttl > 0 /\ t = [x EXCEPT !.ttl = @ - 1]
  BY DEF Tick, TokensOK
<1>4. \A t \in jwts' : /\ t \in Jwt
                       /\ t.ttl > 0 /\ Manage \in t.scopes =>
                            age'[t.user] + t.ttl <= AccessTTL + 1
  <2> SUFFICES ASSUME NEW t \in jwts'
               PROVE  /\ t \in Jwt
                      /\ t.ttl > 0 /\ Manage \in t.scopes =>
                           age'[t.user] + t.ttl <= AccessTTL + 1
    OBVIOUS
  <2>1. PICK x \in jwts : x \in Jwt /\ x.ttl > 0 /\ t = [x EXCEPT !.ttl = @ - 1]
    BY <1>3
  <2>2. /\ t.user = x.user /\ t.scopes = x.scopes /\ t.ttl = x.ttl - 1
        /\ x.user \in User /\ x.ttl \in 0 .. AccessTTL /\ t.scopes \in SUBSET Scope
    BY <2>1 DEF Jwt
  <2>3. t \in Jwt
    BY <1>2, <2>1, <2>2 DEF Jwt
  <2>4. Manage \in x.scopes => age[x.user] + x.ttl <= AccessTTL + 1
    BY <2>1 DEF PowerIsRecent
  <2>5. age'[x.user] \in Nat /\ age[x.user] \in Nat /\ age'[x.user] <= age[x.user] + 1
    BY <1>1, <2>2
  <2> QED
    BY <1>2, <2>2, <2>3, <2>4, <2>5
<1>5. DOMAIN issuing' = Login /\ DOMAIN actor' = Req
  BY DEF Tick
<1>6. ASSUME NEW k \in Login
      PROVE  /\ issuing'[k] = None \/ issuing'[k] \in Issuing
             /\ issuing'[k] # None /\ Manage \in issuing'[k].scopes =>
                  age'[issuing'[k].user] <= issuing'[k].age
  <2>1. CASE issuing[k] = None
    BY <2>1 DEF Tick, Older
  <2>2. CASE issuing[k] # None
    <3>1. issuing[k] \in Issuing /\ issuing[k].age = 0
      BY <2>2 DEF Tick, TokensOK
    <3>2. issuing'[k] = [issuing[k] EXCEPT !.age = @ + 1]
      BY <2>2 DEF Tick, Older
    <3>3. /\ issuing'[k] \in Issuing /\ issuing'[k].age = 1
          /\ issuing'[k].user = issuing[k].user /\ issuing'[k].scopes = issuing[k].scopes
          /\ issuing[k].user \in User
      BY <3>1, <3>2 DEF Issuing
    <3>4. Manage \in issuing[k].scopes => age[issuing[k].user] <= 0
      BY <2>2, <3>1 DEF PowerIsRecent
    <3> QED
      BY <1>1, <3>3, <3>4
  <2> QED
    BY <2>1, <2>2
<1>7. ASSUME NEW r \in Req
      PROVE  /\ actor'[r] = None \/ actor'[r] \in Actor
             /\ actor'[r] # None => age'[actor'[r].user] <= AccessTTL + actor'[r].age
  <2>1. CASE actor[r] = None
    BY <2>1 DEF Tick, Older
  <2>2. CASE actor[r] # None
    <3>1. actor[r] \in Actor /\ actor[r].age = 0
      BY <2>2 DEF Tick, TokensOK
    <3>2. actor'[r] = [actor[r] EXCEPT !.age = @ + 1]
      BY <2>2 DEF Tick, Older
    <3>3. /\ actor'[r] \in Actor /\ actor'[r].age = 1
          /\ actor'[r].user = actor[r].user /\ actor[r].user \in User
      BY <3>1, <3>2 DEF Actor
    <3>4. age[actor[r].user] <= AccessTTL + 0
      BY <2>2, <3>1 DEF PowerIsRecent
    <3> QED
      BY <1>1, <1>2, <3>3, <3>4
  <2> QED
    BY <2>1, <2>2
<1>8. TokensOK'
  BY <1>1, <1>4, <1>5, <1>6, <1>7 DEF TokensOK
<1>9. PowerIsRecent'
  BY <1>4, <1>6, <1>7 DEF PowerIsRecent
<1> QED
  BY <1>8, <1>9

\* Handlers run only for those whom the middleware let in.
ActorsOnly == \A r \in Req : actor[r] = None => req[r] = Idle

LEMMA RequestIsOperation ==
    ASSUME TypeOK, TokensOK, ActorsOnly, Request
    PROVE  (Operation \/ UNCHANGED <<tables, req>>) /\ ActorsOnly'
<1>1. req \in [Req -> Task] /\ DOMAIN actor = Req /\ DOMAIN roles \subseteq RoleId
  BY DEF TypeOK, TokensOK, TablesOK
<1>2. CASE \E u \in User : SignUp(u)
  BY <1>2 DEF SignUp, Register, Operation, ActorsOnly
<1>3. CASE \E u \in User : Bootstrap(u)
  <2>1. PICK u \in User, i \in DOMAIN roles : AssignRoleToUser(u, i) /\ actor' = actor
    BY <1>3 DEF Bootstrap
  <2> QED
    BY <1>1, <2>1 DEF AssignRoleToUser, Operation, Statement, ActorsOnly
<1>4. CASE \/ \E k \in Login, u \in User : ReadPermissions(k, u)
           \/ \E k \in Login : SignAccessToken(k) \/ IssueFails(k)
  BY <1>4 DEF ReadPermissions, SignAccessToken, IssueFails, ActorsOnly
<1>5. CASE \E r \in Req, t \in jwts : Admit(r, t)
  BY <1>1, <1>5 DEF Admit, ActorsOnly
<1>6. CASE \E r \in Req : Reject(r)
  BY <1>1, <1>6 DEF Reject, ActorsOnly
<1>7. CASE \E r \in Req : Act(r)
  <2>1. PICK r \in Req : Act(r)
    BY <1>7
  <2>2. Operation
    BY <2>1 DEF Act, Operation
  <2>3. \A s \in Req \ {r} : req'[s] = req[s] /\ actor'[s] = actor[s]
    BY <1>1, <2>1
    DEF Act, Statement, ActivateUser, CreateRole, DeleteRole, CreatePermission, DeletePermission,
        AssignPermissionToRole, RevokePermissionFromRole, AssignRoleToUser, Begin,
        CountForDeactivate, GetRoleByID, Continue, CountForRevoke, RefuseRevoke, DeleteUserRole,
        AllowDeactivate, RefuseDeactivate, DeactivateUser, Fail, Advance, Goto
  <2>4. actor'[r] = None => req'[r] = Idle
    BY <2>1, <1>1 DEF Act
  <2> QED
    BY <2>2, <2>3, <2>4 DEF ActorsOnly
<1>8. CASE Restart
  BY <1>8 DEF Restart, Crash, Operation, ActorsOnly
<1> QED
  BY <1>2, <1>3, <1>4, <1>5, <1>6, <1>7, <1>8 DEF Request

LEMMA AccessTypes == AccessTypeOK /\ DOMAIN issuing = Login /\ DOMAIN actor = Req
                       <=> TypeOK /\ TokensOK /\ ActorsOnly
BY DEF AccessTypeOK, TokensOK, ActorsOnly, Issuing, Actor

AccessInv == TypeOK /\ TokensOK /\ ActorsOnly /\ PowerIsRecent

LEMMA AccessInvHolds == AccessSpec => []AccessInv
<1>1. AccessInit => AccessInv
  <2> SUFFICES ASSUME AccessInit PROVE AccessInv
    OBVIOUS
  <2>1. TypeOK
    BY TypeAtStart DEF AccessInit
  <2>2. Forever \in Nat
    BY AccessConstantsOK DEF Forever
  <2>3. TokensOK /\ ActorsOnly /\ PowerIsRecent
    BY <2>2 DEF AccessInit, Init, TokensOK, ActorsOnly, PowerIsRecent
  <2> QED
    BY <2>1, <2>3 DEF AccessInv
<1>2. ASSUME AccessInv, [AccessNext]_allVars
      PROVE  AccessInv'
  <2> USE DEF AccessInv
  <2>0. DataOK /\ TasksOK /\ TablesOK
    BY <1>2 DEF TypeOK, DataOK, TasksOK
  <2>1. ASSUME Overtake, Operation \/ UNCHANGED <<tables, req>>
        PROVE  TypeOK'
    <3>1. CASE Operation
      BY <1>2, <2>1, <3>1, TypeKept DEF Next
    <3>2. CASE UNCHANGED <<tables, req>>
      BY <1>2, <2>0, <2>1, <3>2 DEF tables, Overtake, TypeOK, TablesOK
    <3> QED
      BY <2>1, <3>1, <3>2
  <2>2. CASE Request /\ Overtake /\ Observe(0)
    BY <1>2, <2>0, <2>1, <2>2, RequestKeeps, RequestIsOperation
  <2>3. CASE Tick /\ Overtake /\ Observe(1)
    <3>1. UNCHANGED <<tables, req>>
      BY <2>3 DEF Tick
    <3>2. ActorsOnly'
      <4>1. \A r \in Req : actor'[r] = None => actor[r] = None
        <5> SUFFICES ASSUME NEW r \in Req, actor[r] # None PROVE actor'[r] # None
          OBVIOUS
        <5>1. actor[r] \in Actor /\ actor'[r] = [actor[r] EXCEPT !.age = @ + 1]
          BY <1>2, <2>3 DEF TokensOK, Tick, Older
        <5>2. actor'[r] \in Actor
          BY <1>2, <2>3, <5>1 DEF Tick, TokensOK, Actor
        <5> QED
          BY <5>2, AccessConstantsOK DEF Actor
      <4> QED
        BY <1>2, <3>1, <4>1 DEF ActorsOnly
    <3> QED
      BY <1>2, <2>1, <2>3, <3>1, <3>2, TickKeeps
  <2>4. CASE UNCHANGED allVars
    BY <1>2, <2>4 DEF allVars, tables, vars, accessVars, TypeOK, TablesOK, TokensOK, ActorsOnly, PowerIsRecent
  <2> QED
    BY <1>2, <2>2, <2>3, <2>4 DEF AccessNext
<1> QED
  BY <1>1, <1>2, PTL DEF AccessSpec

\* Type correctness of tokens, requests and tables together; in particular no handler of
\* an admin route runs for anybody the middleware has not let in.
THEOREM AccessTypesCorrect == AccessSpec => []AccessTypeOK
<1>1. AccessInv => AccessTypeOK
  BY AccessTypes DEF AccessInv
<1> QED
  BY <1>1, AccessInvHolds, PTL

\* Withdrawn power ends: an admin operation in flight was authorised by permissions its
\* user held in the tables at most the lifetime of an access token and a tick ago.
THEOREM WithdrawnPowerEnds == AccessSpec => []StalePowerExpires
<1>1. ASSUME AccessInv
      PROVE  StalePowerExpires
  <2> SUFFICES ASSUME NEW r \in Req, actor[r] # None
               PROVE  age[actor[r].user] <= AccessTTL + 1
    BY DEF StalePowerExpires
  <2>1. actor[r].age \in 0 .. 1 /\ actor[r].user \in User
    BY <1>1 DEF AccessInv, TokensOK, Actor
  <2>2. age[actor[r].user] <= AccessTTL + actor[r].age
    BY <1>1 DEF AccessInv, PowerIsRecent
  <2>3. age[actor[r].user] \in Int /\ AccessTTL \in Nat
    BY <1>1, <2>1, AccessConstantsOK DEF AccessInv, TokensOK
  <2> QED
    BY <2>1, <2>2, <2>3
<1> QED
  BY <1>1, AccessInvHolds, PTL

\* Without an actor nothing but a registration changes the tables, and who registers is
\* in no role yet.
LEMMA LockedTables ==
    ASSUME TablesOK, TokensOK, Locked, Request \/ Tick, userRoles' = userRoles
    PROVE  \A u \in User : Effective(u)' \subseteq Effective(u)
<1>1. UNCHANGED <<roles, perms, grants, userRoles>> /\ (active' = active \/ \E u \in User : InsertUser(u))
  <2>1. \A r \in Req : actor[r] = None
    BY DEF Locked
  <2>2. ASSUME NEW u \in User, Bootstrap(u)
        PROVE  UNCHANGED <<active, roles, perms, grants>>
    BY <2>2 DEF Bootstrap, AssignRoleToUser, InsertUserRole
  <2>3. ASSUME NEW u \in User, SignUp(u)
        PROVE  InsertUser(u)
    BY <2>3 DEF SignUp, Register
  <2>4. CASE Tick
    BY <2>4 DEF Tick, tables
  <2> QED
    BY <2>1, <2>2, <2>3, <2>4
    DEF Request, ReadPermissions, SignAccessToken, IssueFails, Admit, Act, Reject, Restart, Crash,
        tables, InsertUser
<1>2. CASE active' = active
  BY <1>1, <1>2 DEF Effective
<1>3. CASE \E u \in User : InsertUser(u)
  <2>1. PICK v \in User : InsertUser(v)
    BY <1>3
  <2>2. v \notin DOMAIN active /\ \A u \in DOMAIN active : u # v /\ (active'[u] <=> active[u])
    BY <2>1 DEF InsertUser, TablesOK
  <2>3. DOMAIN active' = DOMAIN active \cup {v}
    BY <2>1 DEF InsertUser
  <2>4. \A i : <<v, i>> \notin userRoles
    BY <2>2 DEF TablesOK
  <2> TAKE u \in User
  <2>5. CASE u = v
    BY <1>1, <2>4, <2>5 DEF Effective
  <2>6. CASE u # v
    BY <1>1, <2>2, <2>3, <2>6 DEF Effective
  <2> QED
    BY <2>5, <2>6
<1> QED
  BY <1>1, <1>2, <1>3

\* When the last trace of manage:roles is gone from the tables, the tokens and the
\* requests, no sequence of requests brings it back.
THEOREM LockoutStays == AccessSpec => LockoutIsFinal
<1>1. ASSUME AccessInv, [AccessNext]_allVars, Locked, userRoles' = userRoles
      PROVE  Locked'
  <2>1. CASE UNCHANGED allVars
    BY <1>1, <2>1 DEF allVars, vars, accessVars, Locked, Effective, VerifyAccessToken
  <2>2. CASE AccessNext
    <3>0. TablesOK /\ TokensOK
      BY <1>1 DEF AccessInv, TypeOK
    <3>1. Request \/ Tick
      BY <2>2 DEF AccessNext
    <3>2. \A u \in User : Manage \notin Effective(u)'
      BY <1>1, <3>0, <3>1, LockedTables DEF Locked
    <3>3. CASE Request
      <4>1. /\ \A k \in Login : issuing[k] # None => Manage \notin issuing[k].scopes
            /\ \A t \in jwts : t.ttl > 0 => Manage \notin t.scopes
            /\ \A r \in Req : actor[r] = None
            /\ \A u \in User : Manage \notin Effective(u)
        BY <1>1 DEF Locked, VerifyAccessToken
      <4>2. /\ \A k \in Login : issuing'[k] # None => Manage \notin issuing'[k].scopes
            /\ \A t \in jwts' : t.ttl > 0 => Manage \notin t.scopes
            /\ \A r \in Req : actor'[r] = None
        BY <3>0, <3>3, <4>1, TokenMoves DEF TokensOK
      <4> QED
        BY <3>2, <4>2 DEF Locked, VerifyAccessToken
    <3>4. CASE Tick
      <4>1. \A t \in jwts' : t.ttl > 0 => Manage \notin t.scopes
        <5> SUFFICES ASSUME NEW t \in jwts' PROVE Manage \notin t.scopes
          OBVIOUS
        <5>1. PICK x \in jwts : x.ttl > 0 /\ t = [x EXCEPT !.ttl = @ - 1]
          BY <3>4 DEF Tick
        <5>2. x \in Jwt
          BY <3>0 DEF TokensOK
        <5>3. t.scopes = x.scopes
          BY <5>1, <5>2 DEF Jwt
        <5> QED
          BY <1>1, <5>1, <5>3 DEF Locked, VerifyAccessToken
      <4>2. \A k \in Login : issuing'[k] # None => Manage \notin issuing'[k].scopes
        <5> SUFFICES ASSUME NEW k \in Login, issuing'[k] # None
                     PROVE  Manage \notin issuing'[k].scopes
          OBVIOUS
        <5>1. issuing[k] # None /\ issuing'[k] = [issuing[k] EXCEPT !.age = @ + 1]
          BY <3>4 DEF Tick, Older
        <5>2. issuing[k] \in Issuing
          BY <3>0, <5>1 DEF TokensOK
        <5>3. issuing'[k].scopes = issuing[k].scopes
          BY <5>1, <5>2 DEF Issuing
        <5> QED
          BY <1>1, <5>1, <5>3 DEF Locked
      <4>3. \A r \in Req : actor'[r] = None
        BY <1>1, <3>4 DEF Tick, Older, Locked
      <4> QED
        BY <3>2, <4>1, <4>2, <4>3 DEF Locked, VerifyAccessToken
    <3> QED
      BY <3>1, <3>3, <3>4
  <2> QED
    BY <1>1, <2>1, <2>2
<1> QED
  BY <1>1, AccessInvHolds, PTL DEF AccessSpec, LockoutIsFinal

-----------------------------------------------------------------------------
(* Role administration behind the middleware                               *)

\* Only requests that have counted the admins are overtaken, and all of them when there
\* is no admin: a step that leaves tables and handlers alone leaves the history alone too.
CountedOnly ==
    /\ \A r \in overtaken : r \in Req /\ req[r].pc \in Counted
    /\ AdminLinks = {} => \A r \in Req : req[r].pc \in Counted => r \in overtaken

LEMMA OvertakenRests ==
    ASSUME CountedOnly, Overtake, UNCHANGED <<tables, req>>
    PROVE  overtaken' = overtaken
<1>1. AdminLinks' = AdminLinks /\ req' = req
  BY DEF tables, AdminLinks
<1> QED
  BY <1>1 DEF CountedOnly, Overtake

LEMMA CountedOnlyHolds == AccessSpec => []CountedOnly
<1>1. AccessInit => CountedOnly
  BY TaskFacts DEF AccessInit, Init, CountedOnly, Counted
<1>2. ASSUME CountedOnly, [AccessNext]_allVars
      PROVE  CountedOnly'
  <2>1. CASE UNCHANGED allVars
    BY <1>2, <2>1 DEF CountedOnly, allVars, vars, AdminLinks
  <2>2. CASE Overtake
    BY <2>2 DEF CountedOnly, Overtake
  <2> QED
    BY <1>2, <2>1, <2>2 DEF AccessNext
<1> QED
  BY <1>1, <1>2, PTL DEF AccessSpec

\* Tokens, middleware, bootstrap and restarts only choose among the operations of role
\* administration: what they add to the program is, for the tables, a step of module
\* Roles or none.
THEOREM AccessImplementsRoles == AccessSpec => Spec
<1>1. AccessInit => Init
  BY DEF AccessInit
<1>2. ASSUME AccessInv, CountedOnly, [AccessNext]_allVars
      PROVE  [Next]_vars
  <2>1. CASE UNCHANGED allVars
    BY <2>1 DEF allVars
  <2>2. CASE AccessNext
    <3>1. Overtake
      BY <2>2 DEF AccessNext
    <3>2. Operation \/ UNCHANGED <<tables, req>>
      <4>1. CASE Request
        BY <1>2, <4>1, RequestIsOperation DEF AccessInv
      <4>2. CASE Tick
        BY <4>2 DEF Tick
      <4> QED
        BY <2>2, <4>1, <4>2 DEF AccessNext
    <3>3. CASE Operation
      BY <3>1, <3>3 DEF Next
    <3>4. CASE UNCHANGED <<tables, req>>
      BY <1>2, <3>1, <3>4, OvertakenRests DEF vars, tables
    <3> QED
      BY <3>2, <3>3, <3>4
  <2> QED
    BY <1>2, <2>1, <2>2
<1> QED
  BY <1>1, <1>2, AccessInvHolds, CountedOnlyHolds, PTL DEF AccessSpec, Spec

\* Behind the middleware the guards of the last admin are as right as they are alone.
THEOREM GuardsBehindMiddleware == AccessSpec => LastAdminGuarded
BY AccessImplementsRoles, GuardsOfTheLastAdmin, PTL

\* Nor does an outdated token, the bootstrap or a restart take the last admin away while
\* removals come one at a time and the role stays.
THEOREM AdminsKeptBehindMiddleware == AccessSpec => AdminsRemain
BY AccessImplementsRoles, AdminsAreKept, PTL

\* With outdated tokens in the hands of clients too, nobody gains a permission in the
\* tables but by a new link or an activation.
THEOREM PowerBehindMiddleware == AccessSpec => PowerNeedsGrant
BY AccessImplementsRoles, PowerComesFromGrants, PTL
=============================================================================
