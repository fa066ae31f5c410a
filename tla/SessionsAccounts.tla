-------------------------- MODULE SessionsAccounts --------------------------
(* Theorems about Sessions that relate it to the accounts: passwords,      *)
(* deactivation and the clean-up, for every value of the constants.        *)
EXTENDS SessionsProofs

\* The handlers that may still store a session.
Opening == {"revokeToken", "getUser", "issue"}

\* The steps of the requests, as far as they matter here.
LEMMA Moves ==
    ASSUME [Next]_vars
    PROVE  \/ req' = req
           \/ req' = [r \in Req |-> Idle]
           \/ \E r \in Req, s \in Spelling, p \in Password : LoginCheck(r, s, p)
           \/ \E r \in Req, t \in Token : RefreshAccepted(r, t)
           \/ \E r \in Req : RevokeToken(r) \/ (GetUser(r) /\ Advance(r, "issue"))
           \/ \E r \in Req : UpdatePassword(r) \/ Goto(r, Idle)
           \/ \E r \in Req, t \in Token : Carry(r, t, "revokeFamily")
           \/ \E r \in Req, u \in User, p \in Password : Goto(r, Job("updatePassword", u, p))
BY DEF Next, Continue, vars, Register, RefreshReused, GetUser, RevokeFamily, IssueTokenPair,
       IssueLost, StoreToken, Logout, CheckPassword, RevokeAll, SetActive,
       DeleteExpiredTokens, Tick, Fail, Crash

\* A handler that may still store a session was one before, or has just verified a
\* password, or has just taken up a live row.
LEMMA Origin ==
    ASSUME TypeOK, [Next]_vars, NEW q \in Req, req'[q].pc \in Opening
    PROVE  \/ /\ req[q].pc \in Opening
              /\ req'[q].user = req[q].user /\ req'[q].secret = req[q].secret
              /\ req'[q].pc = "issue" => req[q].pc = "issue" \/ IsActive(req[q].user)
           \/ /\ users' = users
              /\ IsActive(req'[q].user) /\ VerifyPassword(req'[q].secret, req'[q].user)
           \/ /\ users' = users /\ req'[q].pc = "revokeToken"
              /\ \E t \in DOMAIN rt : /\ Live(t)
                                      /\ req'[q].user = rt[t].user /\ req'[q].secret = rt[t].auth
<1> DEFINE Goal == \/ /\ req[q].pc \in Opening
                      /\ req'[q].user = req[q].user /\ req'[q].secret = req[q].secret
                      /\ req'[q].pc = "issue" => req[q].pc = "issue" \/ IsActive(req[q].user)
                   \/ /\ users' = users
                      /\ IsActive(req'[q].user) /\ VerifyPassword(req'[q].secret, req'[q].user)
                   \/ /\ users' = users /\ req'[q].pc = "revokeToken"
                      /\ \E t \in DOMAIN rt : /\ Live(t) /\ req'[q].user = rt[t].user
                                              /\ req'[q].secret = rt[t].auth
<1>1. CASE req'[q] = req[q]
      BY <1>1
<1>2. CASE req' = [r \in Req |-> Idle]
      BY <1>2 DEF Idle, Job, Opening
<1>3. ASSUME NEW r \in Req, NEW s \in Spelling, NEW p \in Password, LoginCheck(r, s, p),
             req'[q] # req[q]
      PROVE  Goal
  <2>1. q = r /\ req'[q] = Job("issue", Normal[s], p)
        BY <1>3, GotoCases DEF LoginCheck
  <2> QED BY <1>3, <2>1 DEF LoginCheck, Job
<1>4. ASSUME NEW r \in Req, NEW t \in Token, RefreshAccepted(r, t), req'[q] # req[q]
      PROVE  Goal
  <2>1. /\ t \in DOMAIN rt /\ Live(t) /\ req'[q].pc = "revokeToken"
        /\ req'[q].user = rt[t].user /\ req'[q].secret = rt[t].auth
        BY <1>4, GotoCases DEF RefreshAccepted, Presented, Carry, Live
  <2>2. users' = users
        BY <1>4 DEF RefreshAccepted
  <2> QED BY <2>1, <2>2
<1>5. ASSUME NEW r \in Req, RevokeToken(r) \/ (GetUser(r) /\ Advance(r, "issue")), req'[q] # req[q]
      PROVE  Goal
  <2>1. q = r /\ req[q] \in Task
        BY <1>5, GotoCases DEF RevokeToken, Advance, TypeOK
  <2>2. CASE RevokeToken(r)
    <3>1. req'[q] = [req[q] EXCEPT !.pc = "getUser"] /\ req[q].pc = "revokeToken"
          BY <2>1, <2>2, GotoCases DEF RevokeToken, Advance
    <3> QED BY <2>1, <3>1 DEF Task, Opening
  <2>3. CASE GetUser(r) /\ Advance(r, "issue")
    <3>1. req'[q] = [req[q] EXCEPT !.pc = "issue"] /\ req[q].pc = "getUser"
          BY <2>1, <2>3, GotoCases DEF GetUser, Advance
    <3>2. IsActive(req[q].user)
      <4>1. CASE Goto(r, Idle)
        <5>1. req'[q] = Idle
              BY <2>1, <4>1, GotoCases
        <5> QED BY <5>1 DEF Idle, Job, Opening
      <4> QED BY <2>1, <2>3, <4>1 DEF GetUser
    <3> QED BY <2>1, <3>1, <3>2 DEF Task, Opening
  <2> QED BY <1>5, <2>2, <2>3
<1>6. ASSUME NEW r \in Req, UpdatePassword(r) PROVE req'[q] = req[q]
  <2>1. req[r] \in Task
        BY DEF TypeOK
  <2> QED BY <1>6, <2>1, GotoCases DEF UpdatePassword, Advance, Task, Opening
<1>7. ASSUME NEW r \in Req, Goto(r, Idle) PROVE req'[q] = req[q]
      BY <1>7, GotoCases DEF Idle, Job, Opening
<1>8. ASSUME NEW r \in Req, NEW t \in Token, Carry(r, t, "revokeFamily") PROVE req'[q] = req[q]
      BY <1>8, GotoCases DEF Carry, Opening
<1>9. ASSUME NEW r \in Req, NEW u \in User, NEW p \in Password,
             Goto(r, Job("updatePassword", u, p))
      PROVE  req'[q] = req[q]
      BY <1>9, GotoCases DEF Job, Opening
<1> QED BY <1>1, <1>2, <1>3, <1>4, <1>5, <1>6, <1>7, <1>8, <1>9, Moves

\* A live row was live before, with the same user and password, or has just been stored.
LEMMA LiveOrigin ==
    ASSUME TypeOK, [Next]_vars, NEW t \in DOMAIN rt', Live(t)'
    PROVE  \/ /\ t \in DOMAIN rt /\ Live(t)
              /\ rt'[t].user = rt[t].user /\ rt'[t].auth = rt[t].auth
           \/ \E r \in Req : /\ req[r].pc = "issue" /\ Goto(r, Idle) /\ users' = users
                             /\ rt'[t].user = req[r].user /\ rt'[t].auth = req[r].secret
<1>1. CASE rt' = rt
      BY <1>1 DEF Live
<1>2. CASE \E S : Revoke(S)
      BY <1>2, RevokeEffect, RevokeKills DEF TypeOK
<1>3. ASSUME NEW r \in Req, NEW x \in Token, StoreToken(r, x)
      PROVE  \/ t \in DOMAIN rt /\ rt'[t] = rt[t]
             \/ /\ req[r].pc = "issue" /\ Goto(r, Idle) /\ users' = users
                /\ rt'[t].user = req[r].user /\ rt'[t].auth = req[r].secret
      BY <1>3, StoreEffect DEF StoreToken
<1>4. CASE DeleteExpiredTokens
      BY <1>4 DEF DeleteExpiredTokens, Live
<1> QED BY <1>1, <1>2, <1>3, <1>4, RowStep DEF Live

-----------------------------------------------------------------------------
(* The three results                                                       *)

LEMMA FormerPasswordStep ==
    ASSUME TypeOK, [Next]_vars, NEW u \in DOMAIN users, Stale(u) = {},
           users'[u].secret = users[u].secret
    PROVE  Stale(u)' = {}
<1>1. ASSUME NEW t \in DOMAIN rt', rt'[t].user = u, Live(t)'
      PROVE  VerifyPassword(rt[t].auth, u)'
  <2>1. CASE t \in DOMAIN rt /\ Live(t) /\ rt'[t].user = rt[t].user /\ rt'[t].auth = rt[t].auth
        BY <1>1, <2>1 DEF Stale, VerifyPassword
  <2>2. ASSUME NEW r \in Req, req[r].pc = "issue",
               rt'[t].user = req[r].user, rt'[t].auth = req[r].secret
        PROVE  VerifyPassword(rt[t].auth, u)'
        BY <1>1, <2>2 DEF Stale, VerifyPassword
  <2> QED BY <1>1, <2>1, <2>2, LiveOrigin
<1>2. ASSUME NEW q \in Req, req'[q].user = u, req'[q].pc \in Opening
      PROVE  VerifyPassword(req[q].secret, u)'
  <2>1. CASE /\ req[q].pc \in Opening
             /\ req'[q].user = req[q].user /\ req'[q].secret = req[q].secret
        BY <1>2, <2>1 DEF Stale, VerifyPassword, Opening
  <2>2. CASE users' = users /\ VerifyPassword(req'[q].secret, req'[q].user)
        BY <1>2, <2>2 DEF VerifyPassword
  <2>3. ASSUME NEW t \in DOMAIN rt, Live(t), req'[q].user = rt[t].user, req'[q].secret = rt[t].auth
        PROVE  VerifyPassword(req[q].secret, u)'
        BY <1>2, <2>3 DEF Stale, VerifyPassword
  <2> QED BY <1>2, <2>1, <2>2, <2>3, Origin
<1> QED BY <1>1, <1>2 DEF Stale, Opening

\* Change-password, for any number of concurrent logins and refreshes: once nothing that a
\* former password opened is left, nothing of the kind appears while the password stays.
THEOREM FormerPasswordsStayOut == Spec => FormerPasswordStaysOut
<1>1. TypeOK /\ [Next]_vars =>
        [\A u \in DOMAIN users :
           Stale(u) = {} /\ users'[u].secret = users[u].secret => Stale(u)' = {}]_vars
      BY FormerPasswordStep
<1> QED BY <1>1, TypeCorrect, PTL DEF Spec, FormerPasswordStaysOut

LEMMA InactiveStep ==
    ASSUME TypeOK, [Next]_vars, NEW u \in DOMAIN users, ~users[u].active, ~users'[u].active
    PROVE  /\ PastCheck(u)' \subseteq PastCheck(u)
           /\ LiveOf(u)' \subseteq LiveOf(u) \/ PastCheck(u)' # PastCheck(u)
<1>1. ASSUME NEW q \in Req, req'[q].user = u, req'[q].pc = "issue"
      PROVE  req[q].user = u /\ req[q].pc = "issue"
      BY <1>1, Origin DEF Opening, IsActive
<1>2. ASSUME NEW t \in DOMAIN rt', Live(t)', rt'[t].user = u
      PROVE  \/ t \in DOMAIN rt /\ Live(t) /\ rt[t].user = u
             \/ PastCheck(u)' # PastCheck(u)
  <2>1. ASSUME NEW r \in Req, req[r].pc = "issue", Goto(r, Idle), rt'[t].user = req[r].user
        PROVE  r \in PastCheck(u) /\ r \notin PastCheck(u)'
    <3>1. req'[r].pc = "idle"
          BY <2>1, GotoCases DEF Idle, Job
    <3> QED BY <1>2, <2>1, <3>1 DEF PastCheck
  <2> QED BY <1>2, <2>1, LiveOrigin
<1>3. PastCheck(u)' \subseteq PastCheck(u)
      BY <1>1 DEF PastCheck
<1> QED BY <1>2, <1>3 DEF LiveOf

\* Deactivation, for any number of concurrent requests: while a user is inactive no handler
\* gets past the check, and each that was past it stores at most one token more.
THEOREM InactiveUsersGetNothing == Spec => NoSessionWhileInactive
<1>1. TypeOK /\ [Next]_vars =>
        [\A u \in DOMAIN users : ~users[u].active /\ ~users'[u].active =>
           /\ PastCheck(u)' \subseteq PastCheck(u)
           /\ LiveOf(u)' \subseteq LiveOf(u) \/ PastCheck(u)' # PastCheck(u)]_vars
      BY InactiveStep
<1> QED BY <1>1, TypeCorrect, PTL DEF Spec, NoSessionWhileInactive

\* The clean-up and the expiry check agree on every instant: no row disappears that
\* refresh would still accept.
THEOREM UsableRowsStay == Spec => CleanerSparesUsable
<1>1. ASSUME TypeOK, [Next]_vars, NEW t \in Token, Usable(t) PROVE t \in DOMAIN rt'
  <2>1. t \in DOMAIN rt /\ ~Expired(t)
        BY <1>1 DEF Usable, Live
  <2>2. CASE \E S : Revoke(S)
        BY <2>1, <2>2 DEF Revoke
  <2>3. CASE \E r \in Req, x \in Token : StoreToken(r, x)
        BY <1>1, <2>1, <2>3, StoreEffect
  <2>4. CASE DeleteExpiredTokens
        BY <2>1, <2>4 DEF DeleteExpiredTokens
  <2> QED BY <1>1, <2>1, <2>2, <2>3, <2>4, RowStep
<1>2. TypeOK /\ [Next]_vars => [\A t \in Token : Usable(t) => t \in DOMAIN rt']_vars
      BY <1>1
<1> QED BY <1>2, TypeCorrect, PTL DEF Spec, CleanerSparesUsable
=============================================================================
