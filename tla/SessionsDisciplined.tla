------------------------ MODULE SessionsDisciplined -------------------------
(* What the README promises of a session, proved for every value of the    *)
(* constants and any number of requests at once, each promise from the     *)
(* part of the discipline that it needs.                                   *)
EXTENDS SessionsAccounts, SessionsRefinement

\* While a handler renews a session, no token of it is live but the one presented,
\* and that one only until RevokeToken.
RenewalHoldsToken ==
    \A r \in Req : \A t \in DOMAIN rt :
        Renewing(r, rt[t].family) /\ Live(t) =>
            t = req[r].token /\ req[r].pc = "revokeToken"

RotationSerial == OneLiveTokenPerFamily /\ RenewalHoldsToken

-----------------------------------------------------------------------------
(* Where a live row and a handler renewing a session come from             *)

LEMMA LiveRow ==
    ASSUME TypeOK, [Next]_vars, NEW t \in DOMAIN rt', Live(t)'
    PROVE  \/ /\ t \in DOMAIN rt /\ Live(t)
              /\ rt'[t].user = rt[t].user /\ rt'[t].family = rt[t].family
              /\ rt'[t].auth = rt[t].auth /\ rt'[t].expires = rt[t].expires
           \/ t \in Token /\ \E r \in Req : StoreToken(r, t)
<1>1. CASE rt' = rt
      BY <1>1 DEF Live
<1>2. CASE \E S : Revoke(S)
      BY <1>2, RevokeEffect, RevokeKills DEF TypeOK
<1>3. ASSUME NEW r \in Req, NEW x \in Token, StoreToken(r, x), t # x
      PROVE  t \in DOMAIN rt /\ rt'[t] = rt[t]
      BY <1>3, StoreEffect
<1>4. CASE DeleteExpiredTokens
      BY <1>4 DEF DeleteExpiredTokens, Live
<1> QED BY <1>1, <1>2, <1>3, <1>4, RowStep DEF Live

LEMMA RenewingStep ==
    ASSUME TypeOK, [Next]_vars, NEW q \in Req, NEW f \in Token, Renewing(q, f)'
    PROVE  \/ /\ Renewing(q, f)
              /\ req'[q].user = req[q].user /\ req'[q].token = req[q].token
              /\ req'[q].secret = req[q].secret
              /\ \/ req'[q].pc = req[q].pc
                 \/ RevokeToken(q)
                 \/ req[q].pc = "getUser"
           \/ \E t \in Token : /\ RefreshAccepted(q, t) /\ rt[t].family = f
                               /\ req'[q].token = t /\ req'[q].user = rt[t].user
                               /\ req'[q].pc = "revokeToken"
<1> DEFINE Goal == \/ /\ Renewing(q, f)
                      /\ req'[q].user = req[q].user /\ req'[q].token = req[q].token
                      /\ req'[q].secret = req[q].secret
                      /\ \/ req'[q].pc = req[q].pc
                         \/ RevokeToken(q)
                         \/ req[q].pc = "getUser"
                   \/ \E t \in Token : /\ RefreshAccepted(q, t) /\ rt[t].family = f
                                       /\ req'[q].token = t /\ req'[q].user = rt[t].user
                                       /\ req'[q].pc = "revokeToken"
<1>1. f # None /\ req[q] \in Task
      BY ConstantsOK DEF TypeOK
<1>2. CASE req'[q] = req[q]
      BY <1>2 DEF Renewing
<1>3. CASE req' = [r \in Req |-> Idle]
      BY <1>3 DEF Renewing, Idle, Job
<1>4. ASSUME NEW r \in Req, NEW s \in Spelling, NEW p \in Password, LoginCheck(r, s, p)
      PROVE  req'[q] = req[q]
      BY <1>1, <1>4, GotoCases DEF LoginCheck, Job, Renewing
<1>5. ASSUME NEW r \in Req, NEW t \in Token, RefreshAccepted(r, t), req'[q] # req[q]
      PROVE  Goal
  <2>1. /\ q = r /\ req'[q].family = rt[t].family /\ req'[q].token = t
        /\ req'[q].user = rt[t].user /\ req'[q].pc = "revokeToken"
        BY <1>5, GotoCases DEF RefreshAccepted, Carry
  <2> QED BY <1>5, <2>1 DEF Renewing
<1>6. ASSUME NEW r \in Req, RevokeToken(r) \/ (GetUser(r) /\ Advance(r, "issue")),
             req'[q] # req[q]
      PROVE  Goal
  <2>1. q = r
        BY <1>6, GotoCases DEF RevokeToken, Advance
  <2>2. PICK pc \in Step : Advance(q, pc) /\ (RevokeToken(q) \/ req[q].pc = "getUser")
        BY <1>6, <2>1 DEF RevokeToken, GetUser, Step
  <2>3. req'[q] = [req[q] EXCEPT !.pc = pc]
        BY <2>2, GotoCases DEF Advance
  <2> QED BY <1>1, <2>2, <2>3 DEF Task, Renewing, RevokeToken
<1>7. ASSUME NEW r \in Req, UpdatePassword(r) \/ Goto(r, Idle) PROVE req'[q] = req[q]
  <2>1. req[r] \in Task
        BY DEF TypeOK
  <2> QED BY <1>7, <2>1, GotoCases DEF UpdatePassword, Advance, Task, Renewing, Idle, Job
<1>8. ASSUME NEW r \in Req, NEW t \in Token, Carry(r, t, "revokeFamily") PROVE req'[q] = req[q]
      BY <1>8, GotoCases DEF Carry, Renewing
<1>9. ASSUME NEW r \in Req, NEW u \in User, NEW p \in Password,
             Goto(r, Job("updatePassword", u, p))
      PROVE  req'[q] = req[q]
      BY <1>9, GotoCases DEF Job, Renewing
<1> QED BY <1>2, <1>3, <1>4, <1>5, <1>6, <1>7, <1>8, <1>9, Moves

\* A stored row of a session that existed before has its handler in the session.
LEMMA StoredRow ==
    ASSUME TypeOK, NEW r \in Req, NEW t \in Token, StoreToken(r, t),
           NEW f \in minted, rt'[t].family = f
    PROVE  Renewing(r, f) /\ req[r].pc = "issue" /\ req'[r] = Idle
<1>1. t \notin minted /\ FamilyFor(r, t) = f /\ req[r].pc = "issue"
      BY StoreEffect DEF StoreToken
<1>2. req'[r] = Idle
      BY GotoCases DEF StoreToken
<1> QED BY <1>1, <1>2 DEF FamilyFor, Renewing

-----------------------------------------------------------------------------
(* Rotation                                                                *)

LEMMA RotationStep ==
    TypeOK /\ RenewsAlone /\ RotationSerial /\ [Next]_vars => RotationSerial'
<1> SUFFICES ASSUME TypeOK, RenewsAlone, RotationSerial, [Next]_vars
             PROVE  RotationSerial'
    OBVIOUS
<1>0. TypeOK'
      BY StepType
<1>1. ASSUME NEW s \in DOMAIN rt', NEW t \in DOMAIN rt', Live(s)', Live(t)',
             rt'[s].family = rt'[t].family
      PROVE  s = t
  <2> DEFINE f == rt'[s].family
  <2>1. ASSUME NEW x \in DOMAIN rt', NEW y \in DOMAIN rt', rt'[x].family = f, rt'[y].family = f,
               x \in DOMAIN rt, Live(x), rt'[x].family = rt[x].family,
               NEW r \in Req, y \in Token, StoreToken(r, y)
        PROVE  FALSE
    <3>1. f \in minted
          BY <2>1 DEF TypeOK
    <3>2. Renewing(r, f) /\ req[r].pc = "issue"
          BY <2>1, <3>1, StoredRow
    <3> QED BY <2>1, <3>2 DEF RotationSerial, RenewalHoldsToken
  <2>2. ASSUME NEW r \in Req, NEW q \in Req, StoreToken(r, s), StoreToken(q, t) PROVE s = t
        BY <2>2 DEF StoreToken
  <2> QED BY <1>1, <2>1, <2>2, LiveRow DEF RotationSerial, OneLiveTokenPerFamily
<1>2. ASSUME NEW q \in Req, NEW t \in DOMAIN rt', Renewing(q, rt[t].family)', Live(t)'
      PROVE  t = req'[q].token /\ req'[q].pc = "revokeToken"
  <2>0. PICK f \in Token : f = rt'[t].family
        BY <1>0 DEF TypeOK
  <2>1. f \in Token /\ rt'[t].family = f /\ Renewing(q, f)'
        BY <1>2, <2>0 DEF Renewing
  <2>2. CASE /\ Renewing(q, f) /\ req'[q].token = req[q].token
             /\ req'[q].pc = req[q].pc \/ RevokeToken(q) \/ req[q].pc = "getUser"
    <3>1. CASE t \in DOMAIN rt /\ Live(t) /\ rt'[t].family = rt[t].family
      <4>1. t = req[q].token /\ req[q].pc = "revokeToken"
            BY <1>2, <2>1, <2>2, <3>1 DEF RotationSerial, RenewalHoldsToken
      <4>2. ~RevokeToken(q)
            BY <1>2, <4>1, RevokeKills DEF RevokeToken
      <4> QED BY <2>2, <4>1, <4>2
    <3>2. ASSUME NEW r \in Req, t \in Token, StoreToken(r, t) PROVE FALSE
      <4>1. f \in minted
            BY <2>1, <2>2, ConstantsOK DEF TypeOK, RefersOK, Renewing
      <4>2. Renewing(r, f) /\ req'[r] = Idle
            BY <2>1, <3>2, <4>1, StoredRow
      <4>3. q # r
            BY <2>1, <4>2 DEF Renewing, Idle, Job
      <4> QED BY <2>1, <2>2, <4>2, <4>3 DEF RenewsAlone
    <3> QED BY <1>2, <3>1, <3>2, LiveRow
  <2>3. ASSUME NEW x \in Token, RefreshAccepted(q, x), rt[x].family = f,
               req'[q].token = x, req'[q].pc = "revokeToken"
        PROVE  t = req'[q].token /\ req'[q].pc = "revokeToken"
    <3>1. rt' = rt /\ x \in DOMAIN rt /\ Live(x)
          BY <2>3 DEF RefreshAccepted, Presented, Live
    <3>2. t = x
          BY <1>2, <2>1, <2>3, <3>1 DEF RotationSerial, OneLiveTokenPerFamily, Live
    <3> QED BY <2>3, <3>2
  <2> QED BY <2>1, <2>2, <2>3, RenewingStep
<1> QED BY <1>1, <1>2 DEF RotationSerial, OneLiveTokenPerFamily, RenewalHoldsToken

\* At the start no request is in flight.
LEMMA InitAlone == Init => Alone /\ OnePerUser /\ RotationSerial
BY DEF Init, Alone, RenewsAlone, RevokesAlone, ChangesAlone, Storing, OnePerUser, RotationSerial,
       OneLiveTokenPerFamily, RenewalHoldsToken, Renewing, Idle, Job

\* README "Rotacion", for any number of users, sessions and tokens, and whatever fails: as
\* long as no two requests renew a session at once, it has at most one live token.
THEOREM OneTokenPerSession == RenewalSpec => []OneLiveTokenPerFamily
<1> DEFINE I == TypeOK /\ RenewsAlone /\ RotationSerial
<1>1. Init => I
      BY InitType, InitAlone DEF Alone
<1>2. I /\ [Next /\ RenewsAlone']_vars => I'
  <2> SUFFICES ASSUME I, [Next /\ RenewsAlone']_vars PROVE I'
      OBVIOUS
  <2>1. RenewsAlone'
        BY DEF vars, RenewsAlone, Renewing
  <2> QED BY <2>1, StepType, RotationStep
<1>3. I => OneLiveTokenPerFamily
      BY DEF RotationSerial
<1> QED BY <1>1, <1>2, <1>3, PTL DEF RenewalSpec

-----------------------------------------------------------------------------
(* Reuse                                                                   *)

\* A session whose reuse was answered is dead, not only without live token.
ReportedDead == \A f \in reported : DeadFamily(f)

LEMMA DeadStep ==
    ASSUME TypeOK, [Next]_vars, NEW f \in Token, DeadFamily(f)
    PROVE  DeadFamily(f)'
BY NoneRenews, NoLiveRow, MintedStep DEF DeadFamily, StoreToken

\* A reuse is reported by RevokeFamily alone, unless that fails.
LEMMA ReportedStep ==
    ASSUME TypeOK, [Next]_vars, RevocationsDone
    PROVE  reported' = reported \/ \E r \in Req : RevokeFamily(r)
<1>1. ASSUME NEW r \in Req, Fail(r) PROVE reported' = reported \/ RevokeFamily(r)
  <2>1. CASE req[r].pc = "revokeFamily"
    <3>1. req'[r] = Idle
          BY <1>1, GotoCases DEF Fail
    <3>2. RevokeFamily(r) \/ RevokeAll(r)
          BY <2>1, <3>1 DEF RevocationsDone, Idle, Job
    <3> QED BY <2>1, <3>2 DEF RevokeAll
  <2>2. CASE req[r].pc # "revokeFamily"
        BY <1>1, <2>2 DEF Fail
  <2> QED BY <2>1, <2>2
<1> QED BY <1>1 DEF Next, Continue, vars, Register, LoginCheck, RefreshReused, RefreshAccepted,
       RevokeToken, GetUser, IssueTokenPair, IssueLost, StoreToken, Logout, CheckPassword,
       UpdatePassword, RevokeAll, SetActive, DeleteExpiredTokens, Tick, Crash

LEMMA ReuseStep ==
    ASSUME TypeOK, RevokesAlone, ReportedDead, [Next]_vars, RevocationsDone
    PROVE  ReportedDead'
<1>1. ASSUME NEW f \in reported PROVE DeadFamily(f)'
      BY <1>1, DeadStep DEF TypeOK, ReportedDead
<1>2. ASSUME NEW r \in Req, RevokeFamily(r), NEW f \in Token, req[r].family = f
      PROVE  DeadFamily(f)'
  <2>1. f \in minted
        BY <1>2 DEF RevokeFamily, TypeOK, TaskOK, RefersOK
  <2>2. \A t \in DOMAIN rt' : rt'[t].family = f => rt'[t].revoked
        BY <1>2, RevokeEffect DEF RevokeFamily, TypeOK
  <2>3. \A q \in Req : ~Renewing(q, f)'
    <3>1. \A q \in Req : req'[q] = IF q = r THEN Idle ELSE req[q]
          BY <1>2, GotoCases DEF RevokeFamily
    <3>2. \A q \in Req : ~Renewing(q, f)
          BY <1>2 DEF RevokesAlone, RevokeFamily
    <3> QED BY <3>1, <3>2 DEF Renewing, Idle, Job
  <2>4. f \in minted'
        BY <1>2, <2>1 DEF RevokeFamily
  <2> QED BY <2>2, <2>3, <2>4 DEF DeadFamily
<1>3. ASSUME NEW r \in Req, RevokeFamily(r)
      PROVE  req[r].family \in Token /\ reported' = reported \cup {req[r].family}
      BY <1>3 DEF RevokeFamily, TypeOK, TaskOK, RefersOK
<1> QED BY <1>1, <1>2, <1>3, ReportedStep DEF ReportedDead

\* README "Reutilizacion" and ErrTokenReused, for any number of users and requests, two
\* renewals of one session at once included: as long as none is under way while a handler
\* is about to revoke the session, and the UPDATE that revokes it is carried out, a
\* session whose reuse was answered has no live token.
THEOREM ReuseEndsSession == RevocationSpec => []ReuseEndsFamily
<1> DEFINE I == TypeOK /\ RevokesAlone /\ ReportedDead
<1>1. Init => I
      BY InitType, InitAlone DEF Init, ReportedDead, Alone
<1>2. I /\ [Next /\ RevokesAlone' /\ RevocationsDone]_vars => I'
  <2> SUFFICES ASSUME I, [Next /\ RevokesAlone' /\ RevocationsDone]_vars PROVE I'
      OBVIOUS
  <2>1. CASE UNCHANGED vars
        BY <2>1, StepType DEF vars, ReportedDead, DeadFamily, Renewing, RevokesAlone, Storing
  <2>2. CASE Next /\ RevokesAlone' /\ RevocationsDone
        BY <2>2, StepType, ReuseStep
  <2> QED BY <2>1, <2>2
<1>3. I => ReuseEndsFamily
      BY DEF ReportedDead, DeadFamily, ReuseEndsFamily, Live
<1> QED BY <1>1, <1>2, <1>3, PTL DEF RevocationSpec

-----------------------------------------------------------------------------
(* Change-password                                                         *)

\* Nothing opened under a former password is left, except inside change-password.
StaleInChange ==
    \A u \in DOMAIN users :
        Stale(u) = {} \/ \E r \in Req : req[r].pc = "revokeAll" /\ req[r].user = u

\* Who changes passwords.
LEMMA SecretStep ==
    ASSUME TypeOK, [Next]_vars, NEW u \in DOMAIN users
    PROVE  \/ users'[u].secret = users[u].secret
           \/ \E r \in Req : UpdatePassword(r) /\ req[r].user = u
<1>1. CASE users' = users
      BY <1>1
<1>2. ASSUME NEW s \in Spelling, NEW p \in Password, Register(s, p)
      PROVE  users'[u] = users[u]
      BY <1>2 DEF Register
<1>3. ASSUME NEW r \in Req, UpdatePassword(r), req[r].user # u PROVE users'[u] = users[u]
      BY <1>3 DEF UpdatePassword
<1>4. ASSUME NEW v \in User, NEW b \in BOOLEAN, SetActive(v, b)
      PROVE  users'[u].secret = users[u].secret
  <2>1. users[u] \in Account /\ users' = [users EXCEPT ![v].active = b]
        BY <1>4 DEF SetActive, TypeOK
  <2> QED BY <2>1 DEF Account
<1> QED BY <1>1, <1>2, <1>3, <1>4 DEF Next, Continue, vars, LoginCheck, RefreshReused,
       RefreshAccepted, RevokeToken, GetUser, RevokeFamily, IssueTokenPair, IssueLost,
       StoreToken, Logout, CheckPassword, RevokeAll, DeleteExpiredTokens, Tick, Fail, Crash

\* A new user has no session.
LEMMA NewUserClean ==
    ASSUME TypeOK, [Next]_vars, NEW u \in DOMAIN users', u \notin DOMAIN users
    PROVE  Stale(u)' = {}
<1>1. PICK s \in Spelling, p \in Password : Register(s, p)
  <2>1. \A r \in Req : UpdatePassword(r) => DOMAIN users' = DOMAIN users
        BY DEF UpdatePassword
  <2>2. \A v \in User, b \in BOOLEAN : SetActive(v, b) => DOMAIN users' = DOMAIN users
        BY DEF SetActive
  <2> QED BY <2>1, <2>2 DEF Next, Continue, vars, LoginCheck, RefreshReused,
       RefreshAccepted, RevokeToken, GetUser, RevokeFamily, IssueTokenPair, IssueLost,
       StoreToken, Logout, CheckPassword, RevokeAll, DeleteExpiredTokens, Tick, Fail, Crash
<1>2. rt' = rt /\ req' = req
      BY <1>1 DEF Register
<1>3. \A t \in DOMAIN rt : rt[t].user # u
      BY DEF TypeOK
<1>4. \A r \in Req : req[r].pc # "idle" => req[r].user # u
      BY DEF TypeOK, TaskOK, RefersOK
<1> QED BY <1>2, <1>3, <1>4 DEF Stale

\* RevokeAll leaves the user nothing, if no handler is on its way to store a token for him.
LEMMA RevokeAllCleans ==
    ASSUME TypeOK, RevokesAlone, NEW r \in Req, RevokeAll(r), NEW u, u = req[r].user
    PROVE  Stale(u)' = {}
<1>2. \A t \in DOMAIN rt' : rt'[t].user = u => ~Live(t)'
  <2>1. \A t \in DOMAIN rt' : t \in DOMAIN rt /\ rt'[t].user = rt[t].user
        BY RevokeEffect DEF RevokeAll, TypeOK
  <2>2. \A t \in DOMAIN rt' : Live(t)' => Live(t) /\ t \notin LiveOf(u)
        BY RevokeKills DEF RevokeAll
  <2> QED BY <2>1, <2>2 DEF LiveOf
<1>3. \A q \in Req : req'[q] = IF q = r THEN Idle ELSE req[q]
      BY GotoCases DEF RevokeAll
<1>4. \A q \in Req : ~(Storing(q) /\ req[q].user = u)
      BY DEF RevokesAlone, RevokeAll
<1> QED BY <1>2, <1>3, <1>4 DEF Stale, Storing, Idle, Job

LEMMA StaleStep ==
    ASSUME TypeOK, RevokesAlone, StaleInChange, [Next]_vars, RevocationsDone
    PROVE  StaleInChange'
<1> SUFFICES ASSUME NEW u \in DOMAIN users'
             PROVE  \/ Stale(u)' = {}
                    \/ \E r \in Req : req'[r].pc = "revokeAll" /\ req'[r].user = u
    BY DEF StaleInChange
<1>1. CASE u \notin DOMAIN users
      BY <1>1, NewUserClean
<1>2. ASSUME u \in DOMAIN users, Stale(u) = {}
      PROVE  \/ Stale(u)' = {}
             \/ \E r \in Req : req'[r].pc = "revokeAll" /\ req'[r].user = u
  <2>1. CASE users'[u].secret = users[u].secret
        BY <1>2, <2>1, FormerPasswordStep
  <2>2. ASSUME NEW r \in Req, UpdatePassword(r), req[r].user = u
        PROVE  req'[r].pc = "revokeAll" /\ req'[r].user = u
    <3>1. req[r] \in Task
          BY DEF TypeOK
    <3> QED BY <2>2, <3>1, GotoCases DEF UpdatePassword, Advance, Task
  <2> QED BY <1>2, <2>1, <2>2, SecretStep
<1>3. ASSUME NEW r \in Req, req[r].pc = "revokeAll", req[r].user = u
      PROVE  Stale(u)' = {} \/ req'[r] = req[r]
      BY <1>3, RevokeAllCleans DEF RevocationsDone, RevokeFamily
<1> QED BY <1>1, <1>2, <1>3 DEF StaleInChange

\* "password updated - all sessions revoked", for any number of users and requests and
\* whatever else fails: as long as no handler is on its way to store a token of the user
\* while his sessions are about to be revoked, and the UPDATE that revokes them is carried
\* out, every live session was opened with the password in force, but for the moment
\* between the two UPDATEs of change-password.
THEOREM SessionsFollowPassword == RevocationSpec => []SessionsMatchPassword
<1> DEFINE I == TypeOK /\ RevokesAlone /\ StaleInChange
<1>1. Init => I
      BY InitType, InitAlone DEF Init, StaleInChange, Alone
<1>2. I /\ [Next /\ RevokesAlone' /\ RevocationsDone]_vars => I'
  <2> SUFFICES ASSUME I, [Next /\ RevokesAlone' /\ RevocationsDone]_vars PROVE I'
      OBVIOUS
  <2>1. CASE UNCHANGED vars
    <3>1. TypeOK' /\ RevokesAlone'
          BY <2>1, StepType DEF vars, RevokesAlone, Storing, Renewing
    <3>2. StaleInChange'
          BY <2>1 DEF vars, StaleInChange, Stale, Live, VerifyPassword
    <3> QED BY <3>1, <3>2
  <2>2. CASE Next /\ RevokesAlone' /\ RevocationsDone
        BY <2>2, StepType, StaleStep
  <2> QED BY <2>1, <2>2
<1>3. I => SessionsMatchPassword
      BY DEF StaleInChange, SessionsMatchPassword
<1> QED BY <1>1, <1>2, <1>3, PTL DEF RevocationSpec

-----------------------------------------------------------------------------
(* Clients that wait for their answers                                     *)

\* A handler about to revoke a session carries the user it belongs to.
ReuserOwns ==
    \A r \in Req : req[r].pc = "revokeFamily" =>
        \A u \in User : Owns(u, req[r].family) => u = req[r].user

\* The handlers that answer a reuse.
LEMMA ReuserStep ==
    ASSUME TypeOK, [Next]_vars, NEW q \in Req, req'[q].pc = "revokeFamily"
    PROVE  \/ req'[q] = req[q]
           \/ \E t \in DOMAIN rt : /\ req'[q].user = rt[t].user
                                   /\ req'[q].family = rt[t].family
<1>1. ASSUME NEW r \in Req, NEW pc \in {"getUser", "issue", "revokeAll"}, Advance(r, pc)
      PROVE  req'[q] = req[q]
  <2>1. req[r] \in Task
        BY DEF TypeOK
  <2> QED BY <1>1, <2>1, GotoCases DEF Advance, Task
<1>2. ASSUME NEW r \in Req, NEW u, NEW p, Goto(r, Job("issue", u, p))
      PROVE  req'[q] = req[q]
      BY <1>2, GotoCases DEF Job
<1>3. ASSUME NEW r \in Req, NEW u, NEW p, Goto(r, Job("updatePassword", u, p))
      PROVE  req'[q] = req[q]
      BY <1>3, GotoCases DEF Job
<1>4. ASSUME NEW r \in Req, Goto(r, Idle) \/ req' = [x \in Req |-> Idle] PROVE req'[q] = req[q]
      BY <1>4, GotoCases DEF Idle, Job
<1>5. ASSUME NEW r \in Req, NEW t \in DOMAIN rt,
             Carry(r, t, "revokeToken") \/ Carry(r, t, "revokeFamily"), req'[q] # req[q]
      PROVE  req'[q].user = rt[t].user /\ req'[q].family = rt[t].family
      BY <1>5, GotoCases DEF Carry
<1> QED BY <1>1, <1>2, <1>3, <1>4, <1>5, RequestStep DEF RevokeToken, UpdatePassword

LEMMA ReuserOwnsStep ==
    ASSUME TypeOK, FamilyHasOneUser, ReuserOwns, [Next]_vars
    PROVE  ReuserOwns'
<1> SUFFICES ASSUME NEW q \in Req, req'[q].pc = "revokeFamily",
                    NEW f \in Token, f = req'[q].family, NEW u \in User, Owns(u, f)'
             PROVE  u = req'[q].user
  <2>1. \A q \in Req : req'[q].pc = "revokeFamily" => req'[q].family \in Token
        BY StepType DEF TypeOK, TaskOK, RefersOK
  <2> QED BY <2>1 DEF ReuserOwns, Owns, Renewing
<1>1. CASE req'[q] = req[q]
  <2>1. f \in minted
        BY <1>1 DEF TypeOK, TaskOK, RefersOK
  <2> QED BY <1>1, <2>1, OwnerStep DEF ReuserOwns
<1>2. ASSUME NEW t \in DOMAIN rt, req'[q].user = rt[t].user, req'[q].family = rt[t].family
      PROVE  u = req'[q].user
  <2>1. f \in minted /\ rt[t].user \in User /\ Owns(rt[t].user, f)
        BY <1>2 DEF TypeOK, Owns
  <2> QED BY <1>2, <2>1, OwnerStep DEF FamilyHasOneUser
<1> QED BY <1>1, <1>2, ReuserStep

\* Requests that are apart by user are apart as the discipline wants them.
LEMMA ApartByUser ==
    ASSUME TypeOK, FamilyHasOneUser, ReuserOwns, OnePerUser
    PROVE  Alone
<1>1. ASSUME NEW q \in Req, NEW r \in Req, req[q].user = req[r].user, req[q].pc # "idle"
      PROVE  q = r
  <2>1. req[q].user # None
        BY <1>1 DEF TypeOK, TaskOK
  <2> QED BY <1>1, <2>1 DEF OnePerUser
<1>2. ASSUME NEW r \in Req, NEW f \in Token, Renewing(r, f)
      PROVE  req[r].user \in User /\ Owns(req[r].user, f) /\ req[r].pc # "idle"
  <2>1. req[r] \in Task /\ TaskOK(req[r]) /\ req[r].pc # "idle"
        BY <1>2 DEF TypeOK, Renewing
  <2> QED BY <1>2, <2>1 DEF Task, TaskOK, Owns
<1>3. RenewsAlone
      BY <1>1, <1>2 DEF RenewsAlone, FamilyHasOneUser
<1>4. ASSUME NEW q \in Req, NEW r \in Req, req[q].pc = "revokeFamily", Renewing(r, req[q].family)
      PROVE  FALSE
  <2>1. PICK f \in Token : f = req[q].family
        BY <1>4 DEF TypeOK, TaskOK, RefersOK
  <2>2. q = r
        BY <1>1, <1>2, <1>4, <2>1 DEF ReuserOwns
  <2> QED BY <1>4, <2>2 DEF Renewing
<1>5. RevokesAlone
      BY <1>1, <1>4 DEF RevokesAlone, Storing
<1>6. ChangesAlone
      BY <1>1 DEF ChangesAlone
<1> QED BY <1>3, <1>5, <1>6 DEF Alone

\* A client that never has two requests in flight for one user keeps the discipline
\* without knowing of it, whatever the clients of other users do.
THEOREM WaitingClientsSuffice == UserSerialSpec => DisciplinedSpec
<1> DEFINE I == TypeOK /\ FamilyHasOneUser /\ ReuserOwns /\ OnePerUser
<1>1. Init => I
      BY InitType, InitAlone DEF Init, FamilyHasOneUser, Owns, Renewing, ReuserOwns, Idle, Job
<1>2. I /\ [Next /\ OnePerUser' /\ RevocationsDone]_vars => I'
  <2> SUFFICES ASSUME I, [Next /\ OnePerUser' /\ RevocationsDone]_vars PROVE I'
      OBVIOUS
  <2>1. OnePerUser'
        BY DEF vars, OnePerUser
  <2> QED BY <2>1, StepType, StepFamily, ReuserOwnsStep
<1>3. I' => Alone'
  <2>1. I => Alone
        BY ApartByUser
  <2> QED BY <2>1, PTL
<1>4. I /\ [Next /\ OnePerUser' /\ RevocationsDone]_vars
        => I' /\ [Next /\ Alone' /\ RevocationsDone]_vars
      BY <1>2, <1>3
<1> QED BY <1>1, <1>4, PTL DEF UserSerialSpec, DisciplinedSpec
=============================================================================
