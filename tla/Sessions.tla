------------------------------ MODULE Sessions ------------------------------
(***************************************************************************)
(* The authentication service (internal/auth/service.go) over its two     *)
(* tables, users and refresh_tokens.                                       *)
(*                                                                         *)
(* A handler runs its SQL statements one after the other, each in a        *)
(* transaction of its own, and any number of handlers run at once.  One    *)
(* action is therefore one statement together with the Go code that        *)
(* follows it up to the next statement; what the handler keeps in local    *)
(* variables in between is req[r].  A request that is refused before it    *)
(* changes anything (400, 401, 409) is a stuttering step.                  *)
(***************************************************************************)
EXTENDS Naturals

CONSTANTS
    User,        \* e-mail addresses after ToLower(TrimSpace(.)); users are never deleted
    Spelling,    \* e-mail addresses as clients type them
    WellFormed,  \* the spellings that pass the checks of the register handler
    Normal,      \* Normal[s] is ToLower(TrimSpace(s))
    Password,    \* plaintext passwords
    Acceptable,  \* the passwords of 8 to 72 bytes
    Token,       \* refresh tokens GenerateSecureToken can return (never twice the same)
    Req,         \* slots for requests in flight
    RefreshTTL,  \* lifetime of a refresh token, in ticks
    MaxTime,     \* bound on the clock
    Faults,      \* may statements fail, requests be cut off, the process crash?
    None         \* no value

ASSUME ConstantsOK ==
    /\ Normal \in [Spelling -> User]
    /\ WellFormed \subseteq Spelling
    /\ Acceptable \subseteq Password
    /\ RefreshTTL \in Nat /\ MaxTime \in Nat
    /\ Faults \in BOOLEAN
    /\ None \notin User \cup Token \cup Password

VARIABLES
    users,      \* table users: e-mail -> [secret, active]
    rt,         \* table refresh_tokens: token -> row
    minted,     \* tokens that were ever stored
    now,        \* the clock the service and the database share
    req,        \* requests in flight
    known,      \* tokens a client received
    bearers,    \* users whose client received an access token
    exchanged,  \* history: tokens for which Refresh stored a successor
    reported    \* history: families for which ErrTokenReused was answered

vars == <<users, rt, minted, now, req, known, bearers, exchanged, reported>>

\* secret is the password the stored Argon2id hash was made from.
Account == [secret : Password, active : BOOLEAN]

\* A family is named by the first token stored in it.  auth is a history field:
\* the password the login that opened the family was checked against.
Row == [user : User, family : Token, revoked : BOOLEAN, expires : Nat, auth : Password]

\* The statement a request is about to run.
Step == {"idle", "revokeToken", "getUser", "issue", "revokeFamily",
         "updatePassword", "revokeAll"}

Task == [pc : Step, user : User \cup {None}, token : Token \cup {None},
         family : Token \cup {None}, secret : Password \cup {None}]

\* A handler that presented no refresh token.
Job(pc, u, p) == [pc |-> pc, user |-> u, token |-> None, family |-> None, secret |-> p]

Idle == Job("idle", None, None)

-----------------------------------------------------------------------------
(* Tables and local state                                                  *)

Init ==
    /\ users = [u \in {} |-> Idle]
    /\ rt = [t \in {} |-> Idle]
    /\ minted = {} /\ known = {} /\ bearers = {}
    /\ exchanged = {} /\ reported = {}
    /\ now = 0
    /\ req = [r \in Req |-> Idle]

Live(t) == t \in DOMAIN rt /\ ~rt[t].revoked

LiveOf(u) == {t \in DOMAIN rt : Live(t) /\ rt[t].user = u}

Expired(t) == now > rt[t].expires

VerifyPassword(p, u) == users[u].secret = p

IsActive(u) == u \in DOMAIN users /\ users[u].active

\* UPDATE refresh_tokens SET revoked = true for the rows in S.
Revoke(S) ==
    rt' = [t \in DOMAIN rt |-> IF t \in S THEN [rt[t] EXCEPT !.revoked = TRUE] ELSE rt[t]]

Goto(r, task) == req' = [req EXCEPT ![r] = task]

Advance(r, pc) == Goto(r, [req[r] EXCEPT !.pc = pc])

-----------------------------------------------------------------------------
(* POST /auth/register                                                     *)

\* What the handler checks; the others get a 400.
ValidRegistration(s, p) == s \in WellFormed /\ p \in Acceptable

Register(s, p) ==
    LET u == Normal[s] IN
    /\ ValidRegistration(s, p)
    /\ u \notin DOMAIN users        \* else the UNIQUE constraint answers 409
    /\ users' = [v \in DOMAIN users \cup {u} |->
                    IF v = u THEN [secret |-> p, active |-> TRUE] ELSE users[v]]
    /\ UNCHANGED <<rt, minted, now, req, known, bearers, exchanged, reported>>

-----------------------------------------------------------------------------
(* POST /auth/login: GetUserByEmail, then a token pair in a new family     *)

\* Mutant: login without the password check.
LoginCheckUnverified(r, s, p) ==
    LET u == Normal[s] IN
    /\ req[r] = Idle
    /\ IsActive(u)
    /\ Goto(r, Job("issue", u, p))
    /\ UNCHANGED <<users, rt, minted, now, known, bearers, exchanged, reported>>

LoginCheck(r, s, p) ==
    LET u == Normal[s] IN
    /\ req[r] = Idle
    /\ IsActive(u) /\ VerifyPassword(p, u)
    /\ Goto(r, Job("issue", u, p))
    /\ UNCHANGED <<users, rt, minted, now, known, bearers, exchanged, reported>>

-----------------------------------------------------------------------------
(* POST /auth/refresh: GetRefreshTokenByHash, then one of two paths        *)

Presented(r, t) == req[r] = Idle /\ t \in known \cap DOMAIN rt

Carry(r, t, pc) ==
    Goto(r, [pc |-> pc, user |-> rt[t].user, token |-> t,
             family |-> rt[t].family, secret |-> rt[t].auth])

RefreshReused(r, t) ==
    /\ Presented(r, t) /\ rt[t].revoked
    /\ Carry(r, t, "revokeFamily")
    /\ UNCHANGED <<users, rt, minted, now, known, bearers, exchanged, reported>>

\* Mutant: the revoked column is not looked at.
RefreshAcceptedRevoked(r, t) ==
    /\ Presented(r, t) /\ ~Expired(t)
    /\ Carry(r, t, "revokeToken")
    /\ UNCHANGED <<users, rt, minted, now, known, bearers, exchanged, reported>>

RefreshAccepted(r, t) ==
    /\ Presented(r, t) /\ ~rt[t].revoked /\ ~Expired(t)
    /\ Carry(r, t, "revokeToken")
    /\ UNCHANGED <<users, rt, minted, now, known, bearers, exchanged, reported>>

\* Mutant: the presented token is not revoked.
RevokeTokenSkipped(r) ==
    /\ req[r].pc = "revokeToken"
    /\ Advance(r, "getUser")
    /\ UNCHANGED <<users, rt, minted, now, known, bearers, exchanged, reported>>

\* The row may be gone or revoked by now: the UPDATE then changes nothing.
RevokeToken(r) ==
    /\ req[r].pc = "revokeToken"
    /\ Revoke({req[r].token})
    /\ Advance(r, "getUser")
    /\ UNCHANGED <<users, minted, now, known, bearers, exchanged, reported>>

\* Mutant: GetUserByID without its is_active condition.
GetUserInactive(r) ==
    /\ req[r].pc = "getUser"
    /\ Advance(r, "issue")
    /\ UNCHANGED <<users, rt, minted, now, known, bearers, exchanged, reported>>

\* GetUserByID finds active users only; otherwise the answer is a 500.
GetUser(r) ==
    /\ req[r].pc = "getUser"
    /\ IF IsActive(req[r].user) THEN Advance(r, "issue") ELSE Goto(r, Idle)
    /\ UNCHANGED <<users, rt, minted, now, known, bearers, exchanged, reported>>

\* Mutant: only the presented token is revoked.
RevokeOne(r) ==
    /\ req[r].pc = "revokeFamily"
    /\ Revoke({req[r].token})
    /\ reported' = reported \cup {req[r].family}
    /\ Goto(r, Idle)
    /\ UNCHANGED <<users, minted, now, known, bearers, exchanged>>

\* RevokeTokenFamily; the answer is ErrTokenReused.
RevokeFamily(r) ==
    /\ req[r].pc = "revokeFamily"
    /\ Revoke({t \in DOMAIN rt : rt[t].family = req[r].family})
    /\ reported' = reported \cup {req[r].family}
    /\ Goto(r, Idle)
    /\ UNCHANGED <<users, minted, now, known, bearers, exchanged>>

-----------------------------------------------------------------------------
(* issueTokenPairWithFamily: the INSERT of the new refresh token           *)

\* Mutants: a login leaves the family unset, or joins one that exists.
FamilyUnset(r, t) == req[r].family
FamilyShared(r, t) ==
    IF req[r].family = None THEN CHOOSE f \in minted \cup {t} : TRUE ELSE req[r].family

FamilyFor(r, t) == IF req[r].family = None THEN t ELSE req[r].family

StoreToken(r, t) ==
    /\ req[r].pc = "issue" /\ t \in Token \ minted
    /\ minted' = minted \cup {t}
    /\ rt' = [x \in DOMAIN rt \cup {t} |->
                IF x # t THEN rt[x]
                ELSE [user |-> req[r].user, family |-> FamilyFor(r, t), revoked |-> FALSE,
                      expires |-> now + RefreshTTL, auth |-> req[r].secret]]
    /\ exchanged' = exchanged \cup ({req[r].token} \ {None})
    /\ Goto(r, Idle)
    /\ UNCHANGED <<users, now, reported>>

IssueTokenPair(r, t) ==
    /\ StoreToken(r, t)
    /\ known' = known \cup {t}
    /\ bearers' = bearers \cup {req[r].user}

\* The row is stored, the response never reaches the client.
IssueLost(r, t) == Faults /\ StoreToken(r, t) /\ UNCHANGED <<known, bearers>>

-----------------------------------------------------------------------------
(* POST /auth/logout and POST /auth/change-password, behind RequireAuth    *)

Logout(u) ==
    /\ u \in bearers
    /\ Revoke(LiveOf(u))
    /\ UNCHANGED <<users, minted, now, req, known, bearers, exchanged, reported>>

CheckPassword(r, u, p, new) ==
    /\ req[r] = Idle /\ u \in bearers /\ new \in Acceptable
    /\ IsActive(u) /\ VerifyPassword(p, u)
    /\ Goto(r, Job("updatePassword", u, new))
    /\ UNCHANGED <<users, rt, minted, now, known, bearers, exchanged, reported>>

UpdatePassword(r) ==
    /\ req[r].pc = "updatePassword"
    /\ users' = [users EXCEPT ![req[r].user].secret = req[r].secret]
    /\ Advance(r, "revokeAll")
    /\ UNCHANGED <<rt, minted, now, known, bearers, exchanged, reported>>

\* Mutant: change-password leaves the sessions alone.
RevokeAllSkipped(r) ==
    /\ req[r].pc = "revokeAll"
    /\ Goto(r, Idle)
    /\ UNCHANGED <<users, rt, minted, now, known, bearers, exchanged, reported>>

RevokeAll(r) ==
    /\ req[r].pc = "revokeAll"
    /\ Revoke(LiveOf(req[r].user))
    /\ Goto(r, Idle)
    /\ UNCHANGED <<users, minted, now, known, bearers, exchanged, reported>>

-----------------------------------------------------------------------------
(* Administration, the cleaner, time, and what can go wrong                *)

SetActive(u, b) ==
    /\ u \in DOMAIN users
    /\ users' = [users EXCEPT ![u].active = b]
    /\ UNCHANGED <<rt, minted, now, req, known, bearers, exchanged, reported>>

\* Mutant: the boundary is off by one.
DeleteExpiringTokens ==
    /\ rt' = [t \in {x \in DOMAIN rt : now < rt[x].expires} |-> rt[t]]
    /\ UNCHANGED <<users, minted, now, req, known, bearers, exchanged, reported>>

DeleteExpiredTokens ==
    /\ rt' = [t \in {x \in DOMAIN rt : ~Expired(x)} |-> rt[t]]
    /\ UNCHANGED <<users, minted, now, req, known, bearers, exchanged, reported>>

Tick ==
    /\ now < MaxTime
    /\ now' = now + 1
    /\ UNCHANGED <<users, rt, minted, req, known, bearers, exchanged, reported>>

\* A statement fails, the client hangs up or the 30 s context ends: the handler
\* returns.  The error of RevokeTokenFamily alone is discarded, and the answer
\* is still ErrTokenReused.
Fail(r) ==
    /\ Faults /\ req[r].pc # "idle"
    /\ reported' = reported \cup
                     (IF req[r].pc = "revokeFamily" THEN {req[r].family} ELSE {})
    /\ Goto(r, Idle)
    /\ UNCHANGED <<users, rt, minted, now, known, bearers, exchanged>>

\* The process dies and restarts: the tables survive, the handlers do not.
Crash ==
    /\ Faults
    /\ req' = [r \in Req |-> Idle]
    /\ UNCHANGED <<users, rt, minted, now, known, bearers, exchanged, reported>>

\* What a request in flight does next.
Continue(r) ==
    \/ RevokeToken(r) \/ GetUser(r) \/ RevokeFamily(r)
    \/ UpdatePassword(r) \/ RevokeAll(r) \/ Fail(r)
    \/ \E t \in Token : IssueTokenPair(r, t) \/ IssueLost(r, t)

Next ==
    \/ \E s \in Spelling, p \in Password : Register(s, p)
    \/ \E r \in Req, s \in Spelling, p \in Password : LoginCheck(r, s, p)
    \/ \E r \in Req, t \in Token : RefreshReused(r, t) \/ RefreshAccepted(r, t)
    \/ \E r \in Req, u \in User, p, new \in Password : CheckPassword(r, u, p, new)
    \/ \E r \in Req : Continue(r)
    \/ \E u \in User : Logout(u)
    \/ \E u \in User, b \in BOOLEAN : SetActive(u, b)
    \/ DeleteExpiredTokens
    \/ Tick
    \/ Crash

Spec == Init /\ [][Next]_vars

\* Handlers that are about to store a token, or are on the way there.
Storing(r) == req[r].pc \in {"revokeToken", "getUser", "issue"}

\* Those that store it in the family f.
Renewing(r, f) == req[r].pc \in {"revokeToken", "getUser", "issue"} /\ req[r].family = f

\* No two handlers renew a session at once.  Nothing in the service sees to this, nor to
\* what follows; a client that waits for its answers does.
RenewsAlone ==
    \A q, r \in Req : \A f \in Token : Renewing(q, f) /\ Renewing(r, f) => q = r

\* While a handler is about to revoke a session, or the sessions of a user, no handler is
\* on its way to store a token there.
RevokesAlone ==
    \A q, r \in Req :
        /\ req[q].pc = "revokeFamily" => ~Renewing(r, req[q].family)
        /\ req[q].pc = "revokeAll" => ~(Storing(r) /\ req[r].user = req[q].user)

\* No two passwords of a user are between the two UPDATEs of change-password at once: if
\* the second were the one before the first, the sessions it opened would be back.
ChangesAlone ==
    \A q, r \in Req :
        req[q].pc = "revokeAll" /\ req[r].pc = "revokeAll" /\ req[r].user = req[q].user => q = r

\* A revocation is not cut off: no failure and no restart takes its place.
RevocationsDone ==
    \A r \in Req : req[r].pc \in {"revokeFamily", "revokeAll"} =>
        req'[r] = req[r] \/ RevokeFamily(r) \/ RevokeAll(r)

RenewalSpec == Init /\ [][Next /\ RenewsAlone']_vars

RevocationSpec == Init /\ [][Next /\ RevokesAlone' /\ RevocationsDone]_vars

Alone == RenewsAlone /\ RevokesAlone /\ ChangesAlone

DisciplinedSpec == Init /\ [][Next /\ Alone' /\ RevocationsDone]_vars

\* No two requests in flight are of one user.
OnePerUser ==
    \A q, r \in Req : q # r => req[q].user = None \/ req[q].user # req[r].user

UserSerialSpec == Init /\ [][Next /\ OnePerUser' /\ RevocationsDone]_vars

-----------------------------------------------------------------------------
(* Properties                                                              *)

\* Which local variables are set, per step.
TaskOK(q) ==
    /\ q.pc = "idle" => q = Idle
    /\ q.pc # "idle" => q.user # None
    /\ q.pc \notin {"idle", "revokeFamily"} => q.secret # None
    /\ q.pc \in {"revokeToken", "getUser", "revokeFamily"} => q.token # None
    /\ q.pc \in {"updatePassword", "revokeAll"} => q.token = None
    /\ q.token = None <=> q.family = None

\* What a request refers to exists: users are never deleted, and a token that was
\* presented had been stored.
RefersOK(q) ==
    /\ q.user # None => q.user \in DOMAIN users
    /\ q.token # None => q.token \in minted
    /\ q.family # None => q.family \in minted

\* Every table, every local variable and every step of a handler is well formed.
TypeOK ==
    /\ DOMAIN users \subseteq User /\ \A u \in DOMAIN users : users[u] \in Account
    /\ DOMAIN rt \subseteq minted /\ \A t \in DOMAIN rt : rt[t] \in Row
    /\ minted \subseteq Token /\ known \subseteq minted
    /\ bearers \subseteq DOMAIN users
    /\ exchanged \subseteq minted /\ reported \subseteq minted
    /\ now \in Nat
    /\ req \in [Req -> Task]
    /\ \A r \in Req : TaskOK(req[r])
    /\ \A r \in Req : RefersOK(req[r])
    /\ \A t \in DOMAIN rt : rt[t].user \in DOMAIN users /\ rt[t].family \in minted

\* Rotation (service.go:120 before service.go:129): a token that was traded for a
\* successor is never accepted again, whatever fails or interleaves.
TradedTokenIsDead == \A t \in exchanged : ~Live(t)

\* The inductive form: the token is dead before its successor is stored.
RotationInv ==
    /\ TradedTokenIsDead
    /\ \A r \in Req : req[r].pc \in {"getUser", "issue"} /\ req[r].token # None =>
            ~Live(req[r].token)

\* u has a row of family f, or a handler about to store one.
Owns(u, f) ==
    \/ \E t \in DOMAIN rt : rt[t].family = f /\ rt[t].user = u
    \/ \E r \in Req : Renewing(r, f) /\ req[r].user = u

\* A family never mixes users: the rows of one session, and the handlers renewing
\* it, all belong to the user who logged in.
FamilyHasOneUser ==
    \A f \in Token : \A u, v \in User : Owns(u, f) /\ Owns(v, f) => u = v

\* A session with no live token and no handler renewing it.
DeadFamily(f) ==
    /\ f \in minted
    /\ \A t \in DOMAIN rt : rt[t].family = f => rt[t].revoked
    /\ \A r \in Req : ~Renewing(r, f)

\* Family revocation is final: once a session is dead, no later login, refresh,
\* retry, clean-up or restart brings one of its tokens back.
DeadFamilyStaysDead == [][\A f \in Token : DeadFamily(f) => DeadFamily(f)']_vars

\* The user's sessions, stored or about to be, that a former password opened.
Stale(u) ==
    {t \in DOMAIN rt : rt[t].user = u /\ Live(t) /\ ~VerifyPassword(rt[t].auth, u)}
        \cup {r \in Req : /\ req[r].user = u /\ ~VerifyPassword(req[r].secret, u)
                          /\ req[r].pc \in {"revokeToken", "getUser", "issue"}}

\* Change-password (service.go:151-158): when nothing opened under a former
\* password is left, nothing of the kind appears until the password changes again.
FormerPasswordStaysOut ==
    [][\A u \in DOMAIN users :
         Stale(u) = {} /\ users'[u].secret = users[u].secret => Stale(u)' = {}]_vars

\* The handlers of u that are past their check of is_active.
PastCheck(u) == {r \in Req : req[r].pc = "issue" /\ req[r].user = u}

\* Deactivation (users.sql:6-14, read at service.go:86 and 124 but not where the token is
\* stored): while a user is inactive no handler gets past the check, and each of those
\* that were past it already can store one token and no more.
NoSessionWhileInactive ==
    [][\A u \in DOMAIN users : ~users[u].active /\ ~users'[u].active =>
         /\ PastCheck(u)' \subseteq PastCheck(u)
         /\ LiveOf(u)' \subseteq LiveOf(u) \/ PastCheck(u)' # PastCheck(u)]_vars

\* A token the refresh handler would still accept.
Usable(t) == Live(t) /\ ~Expired(t)

\* The clean-up (DELETE ... WHERE expires_at < now()) and the check
\* time.Now().After(ExpiresAt) agree at the boundary: no usable row is deleted.
CleanerSparesUsable == [][\A t \in Token : Usable(t) => t \in DOMAIN rt']_vars

(* What the documentation says of a session: true under the discipline      *)
(* above, which nothing in the service enforces, false otherwise.           *)

\* README "Rotación": each use of a refresh token issues a new one and revokes the
\* previous one, so a session has at most one live token.
OneLiveTokenPerFamily ==
    \A s, t \in DOMAIN rt : Live(s) /\ Live(t) /\ rt[s].family = rt[t].family => s = t

\* README "Reutilización" and ErrTokenReused: when the reuse of a rotated token was
\* detected and answered, the whole session is revoked.
ReuseEndsFamily ==
    \A t \in DOMAIN rt : rt[t].family \in reported => ~Live(t)

\* "password updated — all sessions revoked": a live session was opened with the
\* current password, except inside the change-password handler.
SessionsMatchPassword ==
    \A u \in DOMAIN users :
        \/ Stale(u) \cap Token = {}
        \/ \E r \in Req : req[r].pc = "revokeAll" /\ req[r].user = u

-----------------------------------------------------------------------------
(* Refinement: what the tables and the handlers in flight mean to a client  *)

\* The one user who owns family f.
OwnerOf(f) == CHOOSE u \in User : Owns(u, f)

\* A session is open as long as it has a live token or a handler renewing it.
OpenFamilies == {f \in minted : ~DeadFamily(f)}

OpenSessions == [f \in OpenFamilies |-> OwnerOf(f)]

LiveTokens == [t \in {x \in DOMAIN rt : Live(x)} |-> rt[t].family]

Life == INSTANCE SessionLife WITH
    issued <- minted, owner <- OpenSessions, valid <- LiveTokens

\* Sessions and tokens never come back, and a session keeps its user, whatever runs at
\* once and whatever fails (service.go:100-196).
ImplementsLife == Life!LifeSpec

\* Until its handler is done, a refresh has not happened: the token presented is still
\* the session's.  A change of password has, as soon as the password is another.
InHand == {req[r].token : r \in {q \in Req : \E f \in Token : Renewing(q, f)}} \ {None}

AtRest ==
    {t \in DOMAIN rt : /\ Usable(t) /\ VerifyPassword(rt[t].auth, rt[t].user)
                       /\ \A r \in Req : ~Renewing(r, rt[t].family)}

SessionOf(t) ==
    IF t \in AtRest THEN rt[t].family
    ELSE CHOOSE f \in Token : \E r \in Req : Renewing(r, f) /\ req[r].token = t

Served == [t \in AtRest \cup InHand |-> SessionOf(t)]

ServedSessions == [f \in {Served[t] : t \in DOMAIN Served} |-> OwnerOf(f)]

Promise == INSTANCE SessionPromise WITH
    issued <- minted, owner <- ServedSessions, valid <- Served

\* README "Rotacion", "Reutilizacion" and the answer of change-password: under the
\* discipline a session has exactly one token, which each refresh replaces, and it ends
\* as a whole and for good (service.go:100-159).
ImplementsPromise == Promise!PromiseSpec
=============================================================================
