--------------------------- MODULE SessionsProofs ---------------------------
(* Theorems about Sessions, for every value of its constants.              *)
EXTENDS Sessions, TLAPS

(* The two ways in which the model changes a row or a request.             *)

\* Revoking rows changes nothing but their revoked column.
LEMMA RevokeEffect ==
    ASSUME NEW S, \A t \in DOMAIN rt : rt[t] \in Row, Revoke(S)
    PROVE  /\ DOMAIN rt' = DOMAIN rt
           /\ \A t \in DOMAIN rt :
                /\ rt'[t] \in Row
                /\ rt'[t].user = rt[t].user /\ rt'[t].family = rt[t].family
                /\ rt'[t].auth = rt[t].auth /\ rt'[t].expires = rt[t].expires
                /\ rt[t].revoked \/ t \in S => rt'[t].revoked
                /\ ~rt[t].revoked /\ t \notin S => ~rt'[t].revoked
BY DEF Revoke, Row

\* A request moves on alone, and what it carries stays well formed.
LEMMA GotoEffect ==
    ASSUME TypeOK, NEW r \in Req, NEW task \in Task, TaskOK(task),
           RefersOK(task), Goto(r, task)
    PROVE  /\ req' \in [Req -> Task] /\ req'[r] = task
           /\ \A q \in Req : q # r => req'[q] = req[q]
           /\ \A q \in Req : TaskOK(req'[q])
           /\ \A q \in Req : RefersOK(req'[q])
BY DEF Goto, TypeOK

LEMMA IdleType == Idle \in Task /\ TaskOK(Idle) /\ RefersOK(Idle)
BY DEF Idle, Job, Task, TaskOK, RefersOK, Step

\* The next statement of a handler: only pc changes.
LEMMA AdvanceEffect ==
    ASSUME TypeOK, NEW r \in Req, NEW pc \in Step, Advance(r, pc),
           TaskOK([req[r] EXCEPT !.pc = pc])
    PROVE  /\ req' \in [Req -> Task]
           /\ req'[r].pc = pc
           /\ req'[r].user = req[r].user /\ req'[r].token = req[r].token
           /\ req'[r].family = req[r].family /\ req'[r].secret = req[r].secret
           /\ \A q \in Req : q # r => req'[q] = req[q]
           /\ \A q \in Req : TaskOK(req'[q])
           /\ \A q \in Req : RefersOK(req'[q])
<1> DEFINE task == [req[r] EXCEPT !.pc = pc]
<1>1. req[r] \in Task
      BY DEF TypeOK
<1>2. /\ task \in Task /\ task.pc = pc /\ task.user = req[r].user
      /\ task.token = req[r].token /\ task.family = req[r].family
      /\ task.secret = req[r].secret
      BY <1>1 DEF Task
<1>3. RefersOK(task)
      BY <1>2 DEF TypeOK, RefersOK
<1>4. Goto(r, task) /\ TaskOK(task)
      BY DEF Advance
<1> HIDE DEF task
<1> QED BY <1>2, <1>3, <1>4, GotoEffect

\* A stored token is new, belongs to the request that stored it and touches no
\* other row.
LEMMA StoreEffect ==
    ASSUME TypeOK, NEW r \in Req, NEW t \in Token, StoreToken(r, t)
    PROVE  /\ t \notin minted /\ t \notin DOMAIN rt
           /\ DOMAIN rt' = DOMAIN rt \cup {t}
           /\ \A x \in DOMAIN rt : rt'[x] = rt[x]
           /\ rt'[t] \in Row /\ ~rt'[t].revoked
           /\ rt'[t].user = req[r].user /\ rt'[t].family = FamilyFor(r, t)
           /\ rt'[t].auth = req[r].secret
<1>1. /\ req[r] \in Task /\ TaskOK(req[r]) /\ req[r].pc = "issue"
      /\ now \in Nat /\ DOMAIN rt \subseteq minted
      BY DEF TypeOK, StoreToken
<1>2. req[r].user \in User /\ req[r].secret \in Password /\ FamilyFor(r, t) \in Token
      BY <1>1, ConstantsOK DEF Task, TaskOK, FamilyFor
<1>3. now + RefreshTTL \in Nat
      BY <1>1, ConstantsOK
<1> QED BY <1>1, <1>2, <1>3 DEF StoreToken, Row

-----------------------------------------------------------------------------
(* Type correctness                                                        *)

LEMMA InitType == Init => TypeOK
<1>1. Init => \A r \in Req : req[r] = Idle
      BY DEF Init
<1> QED BY <1>1, IdleType DEF Init, TypeOK

LEMMA StoreType ==
    ASSUME TypeOK, NEW r \in Req, NEW t \in Token, StoreToken(r, t),
           known' \subseteq known \cup {t}, bearers' \subseteq bearers \cup {req[r].user}
    PROVE  TypeOK'
<1>1. /\ req[r] \in Task /\ TaskOK(req[r]) /\ RefersOK(req[r]) /\ req[r].pc = "issue"
      /\ req[r].user \in DOMAIN users
      BY DEF TypeOK, StoreToken, TaskOK, RefersOK
<1>2. /\ req' \in [Req -> Task] /\ \A q \in Req : TaskOK(req'[q])
      /\ \A q \in Req : RefersOK(req'[q])
      BY IdleType, GotoEffect DEF StoreToken
<1>3. users' = users /\ minted' = minted \cup {t} /\ now' = now /\ reported' = reported
      BY DEF StoreToken
<1>4. \A q \in Req : RefersOK(req[q])'
      BY <1>2, <1>3 DEF RefersOK
<1>5. FamilyFor(r, t) \in minted'
      BY <1>1, <1>3 DEF FamilyFor, RefersOK
<1>6. \A x \in DOMAIN rt' : /\ rt'[x] \in Row /\ rt'[x].user \in DOMAIN users
                           /\ rt'[x].family \in minted'
  <2>1. DOMAIN rt' = DOMAIN rt \cup {t} /\ \A x \in DOMAIN rt : rt'[x] = rt[x]
        BY StoreEffect
  <2>2. \A x \in DOMAIN rt : /\ rt[x] \in Row /\ rt[x].user \in DOMAIN users
                            /\ rt[x].family \in minted'
        BY <1>3 DEF TypeOK
  <2>3. /\ rt'[t] \in Row /\ rt'[t].user \in DOMAIN users
        /\ rt'[t].family \in minted'
        BY <1>1, <1>5, StoreEffect
  <2> QED BY <2>1, <2>2, <2>3
<1>7. DOMAIN rt' \subseteq minted'
      BY <1>3, StoreEffect DEF TypeOK
<1>8. exchanged' \subseteq minted'
      BY <1>1, <1>3 DEF TypeOK, StoreToken, RefersOK
<1>9. \A q \in Req : TaskOK(req[q])'
      BY <1>2 DEF TaskOK
<1> QED BY <1>1, <1>2, <1>3, <1>4, <1>6, <1>7, <1>8, <1>9 DEF TypeOK

\* A step of a handler that leaves the tables alone.
LEMMA GotoType ==
    ASSUME TypeOK, NEW r \in Req, NEW task \in Task, TaskOK(task), RefersOK(task),
           Goto(r, task),
           UNCHANGED <<users, rt, minted, now, known, bearers, exchanged>>,
           reported' \subseteq minted
    PROVE  TypeOK'
<1>1. /\ req' \in [Req -> Task] /\ \A q \in Req : TaskOK(req'[q])
      /\ \A q \in Req : RefersOK(req'[q])
      BY GotoEffect
<1> QED BY <1>1 DEF TypeOK, TaskOK, RefersOK

\* A step that revokes rows, and moves a request on or leaves all of them alone.
LEMMA RevokeType ==
    ASSUME TypeOK, NEW S, Revoke(S),
           req' \in [Req -> Task], \A q \in Req : TaskOK(req'[q]) /\ RefersOK(req'[q]),
           UNCHANGED <<users, minted, now, known, bearers, exchanged>>,
           reported' \subseteq minted
    PROVE  TypeOK'
<1>1. /\ DOMAIN rt' = DOMAIN rt
      /\ \A t \in DOMAIN rt : /\ rt'[t] \in Row /\ rt'[t].user = rt[t].user
                              /\ rt'[t].family = rt[t].family
      BY RevokeEffect DEF TypeOK
<1> QED BY <1>1 DEF TypeOK, TaskOK, RefersOK

\* One step per action of Next.
LEMMA StepType == TypeOK /\ [Next]_vars => TypeOK'
<1> SUFFICES ASSUME TypeOK, [Next]_vars PROVE TypeOK'
    OBVIOUS
<1>1. ASSUME NEW s \in Spelling, NEW p \in Password, Register(s, p) PROVE TypeOK'
  <2>1. Normal[s] \in User
        BY ConstantsOK
  <2>2. /\ DOMAIN users' \subseteq User /\ DOMAIN users \subseteq DOMAIN users'
        /\ \A u \in DOMAIN users' : users'[u] \in Account
        BY <1>1, <2>1 DEF Register, ValidRegistration, TypeOK, Account
  <2> QED BY <1>1, <2>2 DEF Register, TypeOK, TaskOK, RefersOK
<1>2. ASSUME NEW r \in Req, NEW s \in Spelling, NEW p \in Password, LoginCheck(r, s, p)
      PROVE TypeOK'
  <2> DEFINE task == Job("issue", Normal[s], p)
  <2>1. Normal[s] \in User /\ Normal[s] \in DOMAIN users
        BY <1>2, ConstantsOK DEF LoginCheck, IsActive
  <2>2. task \in Task /\ TaskOK(task) /\ RefersOK(task)
        BY <2>1, ConstantsOK DEF Job, Task, TaskOK, RefersOK, Step
  <2>3. Goto(r, task) /\ UNCHANGED <<users, rt, minted, now, known, bearers, exchanged, reported>>
        BY <1>2 DEF LoginCheck
  <2> HIDE DEF task
  <2> QED BY <2>2, <2>3, GotoType DEF TypeOK
<1>3. ASSUME NEW r \in Req, NEW t \in Token, RefreshReused(r, t) \/ RefreshAccepted(r, t)
      PROVE TypeOK'
  <2>1. PICK pc \in {"revokeToken", "revokeFamily"} : Carry(r, t, pc)
        BY <1>3 DEF RefreshReused, RefreshAccepted
  <2> DEFINE task == [pc |-> pc, user |-> rt[t].user, token |-> t,
                      family |-> rt[t].family, secret |-> rt[t].auth]
  <2>2. rt[t] \in Row /\ rt[t].user \in DOMAIN users /\ rt[t].family \in minted /\ t \in minted
        BY <1>3 DEF RefreshReused, RefreshAccepted, Presented, TypeOK
  <2>3. task \in Task /\ TaskOK(task) /\ RefersOK(task)
        BY <2>2, ConstantsOK DEF Task, TaskOK, RefersOK, Step, Row
  <2>4. Goto(r, task) /\ UNCHANGED <<users, rt, minted, now, known, bearers, exchanged, reported>>
        BY <1>3, <2>1 DEF RefreshReused, RefreshAccepted, Carry
  <2> HIDE DEF task
  <2> QED BY <2>3, <2>4, GotoType DEF TypeOK
<1>4. ASSUME NEW r \in Req, RevokeToken(r) PROVE TypeOK'
  <2>1. TaskOK([req[r] EXCEPT !.pc = "getUser"])
        BY <1>4 DEF RevokeToken, TypeOK, Task, TaskOK
  <2>2. /\ req' \in [Req -> Task] /\ \A q \in Req : TaskOK(req'[q])
        /\ \A q \in Req : RefersOK(req'[q])
        BY <1>4, <2>1, AdvanceEffect DEF RevokeToken, Step
  <2> QED BY <1>4, <2>2, RevokeType DEF RevokeToken, TypeOK
<1>5. ASSUME NEW r \in Req, GetUser(r) PROVE TypeOK'
  <2>1. TaskOK([req[r] EXCEPT !.pc = "issue"])
        BY <1>5 DEF GetUser, TypeOK, Task, TaskOK
  <2>2. CASE Advance(r, "issue")
        BY <1>5, <2>1, <2>2, AdvanceEffect DEF GetUser, TypeOK, TaskOK, RefersOK, Step
  <2>3. CASE Goto(r, Idle)
        BY <1>5, <2>3, IdleType, GotoType DEF GetUser, TypeOK
  <2> QED BY <1>5, <2>2, <2>3 DEF GetUser
<1>6. ASSUME NEW r \in Req, RevokeFamily(r) PROVE TypeOK'
  <2>1. req[r].family \in minted
        BY <1>6 DEF RevokeFamily, TypeOK, TaskOK, RefersOK
  <2>2. /\ req' \in [Req -> Task] /\ \A q \in Req : TaskOK(req'[q])
        /\ \A q \in Req : RefersOK(req'[q])
        BY <1>6, IdleType, GotoEffect DEF RevokeFamily
  <2> QED BY <1>6, <2>1, <2>2, RevokeType DEF RevokeFamily, TypeOK
<1>7. ASSUME NEW r \in Req, NEW t \in Token, IssueTokenPair(r, t) PROVE TypeOK'
    BY <1>7, StoreType DEF IssueTokenPair
<1>8. ASSUME NEW r \in Req, NEW t \in Token, IssueLost(r, t) PROVE TypeOK'
    BY <1>8, StoreType DEF IssueLost
<1>9. ASSUME NEW u \in User, Logout(u) PROVE TypeOK'
    BY <1>9, RevokeType DEF Logout, TypeOK
<1>10. ASSUME NEW r \in Req, NEW u \in User, NEW p \in Password, NEW new \in Password,
              CheckPassword(r, u, p, new)
       PROVE  TypeOK'
  <2> DEFINE task == Job("updatePassword", u, new)
  <2>1. task \in Task /\ TaskOK(task) /\ RefersOK(task)
        BY <1>10, ConstantsOK DEF CheckPassword, IsActive, Job, Task, TaskOK, RefersOK, Step
  <2>2. Goto(r, task) /\ UNCHANGED <<users, rt, minted, now, known, bearers, exchanged, reported>>
        BY <1>10 DEF CheckPassword
  <2> HIDE DEF task
  <2> QED BY <2>1, <2>2, GotoType DEF TypeOK
<1>11. ASSUME NEW r \in Req, UpdatePassword(r) PROVE TypeOK'
  <2>1. TaskOK([req[r] EXCEPT !.pc = "revokeAll"])
        BY <1>11 DEF UpdatePassword, TypeOK, Task, TaskOK
  <2>2. /\ req' \in [Req -> Task] /\ \A q \in Req : TaskOK(req'[q])
        /\ \A q \in Req : RefersOK(req'[q])
        BY <1>11, <2>1, AdvanceEffect DEF UpdatePassword, Step
  <2>3. req[r].user \in DOMAIN users /\ req[r].secret \in Password
        BY <1>11 DEF UpdatePassword, TypeOK, Task, TaskOK, RefersOK
  <2>4. DOMAIN users' = DOMAIN users /\ \A u \in DOMAIN users : users'[u] \in Account
        BY <1>11, <2>3 DEF UpdatePassword, TypeOK, Account
  <2> QED BY <1>11, <2>2, <2>4 DEF UpdatePassword, TypeOK, TaskOK, RefersOK
<1>12. ASSUME NEW r \in Req, RevokeAll(r) PROVE TypeOK'
  <2>1. /\ req' \in [Req -> Task] /\ \A q \in Req : TaskOK(req'[q])
        /\ \A q \in Req : RefersOK(req'[q])
        BY <1>12, IdleType, GotoEffect DEF RevokeAll
  <2> QED BY <1>12, <2>1, RevokeType DEF RevokeAll, TypeOK
<1>13. ASSUME NEW u \in User, NEW b \in BOOLEAN, SetActive(u, b) PROVE TypeOK'
  <2>1. DOMAIN users' = DOMAIN users /\ \A v \in DOMAIN users : users'[v] \in Account
        BY <1>13 DEF SetActive, TypeOK, Account
  <2> QED BY <1>13, <2>1 DEF SetActive, TypeOK, TaskOK, RefersOK
<1>14. ASSUME DeleteExpiredTokens PROVE TypeOK'
    BY <1>14 DEF DeleteExpiredTokens, TypeOK, TaskOK, RefersOK
<1>15. ASSUME Tick PROVE TypeOK'
    BY <1>15 DEF Tick, TypeOK, TaskOK, RefersOK
<1>16. ASSUME NEW r \in Req, Fail(r) PROVE TypeOK'
  <2>1. req[r].pc = "revokeFamily" => req[r].family \in minted
        BY DEF TypeOK, TaskOK, RefersOK
  <2> QED BY <1>16, <2>1, IdleType, GotoType DEF Fail, TypeOK
<1>17. ASSUME Crash PROVE TypeOK'
    BY <1>17, IdleType DEF Crash, TypeOK, TaskOK, RefersOK
<1>18. CASE UNCHANGED vars
    BY <1>18 DEF vars, TypeOK, TaskOK, RefersOK
<1> QED BY <1>1, <1>2, <1>3, <1>4, <1>5, <1>6, <1>7, <1>8, <1>9, <1>10, <1>11, <1>12,
           <1>13, <1>14, <1>15, <1>16, <1>17, <1>18 DEF Next, Continue

\* Type correctness: a request never carries a token, family or user that does not
\* exist, a row never loses its user, and each step sets the locals the next reads.
THEOREM TypeCorrect == Spec => []TypeOK
BY InitType, StepType, PTL DEF Spec

-----------------------------------------------------------------------------
(* Rotation                                                                *)

\* The four things that can happen to the rows.
LEMMA RowStep ==
    ASSUME [Next]_vars
    PROVE  \/ rt' = rt
           \/ \E S : Revoke(S)
           \/ \E r \in Req, t \in Token : StoreToken(r, t)
           \/ DeleteExpiredTokens
BY DEF Next, Continue, vars, Register, LoginCheck, RefreshReused, RefreshAccepted, RevokeToken,
       GetUser, RevokeFamily, IssueTokenPair, IssueLost, Logout, CheckPassword,
       UpdatePassword, RevokeAll, SetActive, Tick, Fail, Crash

LEMMA RevokeKills ==
    ASSUME NEW S, Revoke(S), NEW t, Live(t)'
    PROVE  Live(t) /\ t \notin S
BY DEF Revoke, Live

\* A token is never revived: revoked, deleted or lost, it stays out of use.
LEMMA TokenStaysDead ==
    ASSUME TypeOK, [Next]_vars, NEW t \in minted, ~Live(t)
    PROVE  ~Live(t)'
<1>1. CASE rt' = rt
      BY <1>1 DEF Live
<1>2. CASE \E S : Revoke(S)
      BY <1>2, RevokeKills
<1>3. ASSUME NEW r \in Req, NEW x \in Token, StoreToken(r, x) PROVE ~Live(t)'
  <2>1. t # x /\ DOMAIN rt' = DOMAIN rt \cup {x} /\ \A y \in DOMAIN rt : rt'[y] = rt[y]
        BY <1>3, StoreEffect
  <2> QED BY <2>1 DEF Live
<1>4. CASE DeleteExpiredTokens
      BY <1>4 DEF DeleteExpiredTokens, Live
<1> QED BY <1>1, <1>2, <1>3, <1>4, RowStep

\* Every step moves at most one request, except a crash.
LEMMA RequestStep ==
    ASSUME TypeOK, [Next]_vars
    PROVE  \/ req' = req
           \/ req' = [r \in Req |-> Idle]
           \/ \E r \in Req, u \in User, p \in Password :
                Goto(r, Job("issue", u, p)) \/ Goto(r, Job("updatePassword", u, p))
           \/ \E r \in Req, t \in DOMAIN rt :
                (Live(t) /\ Carry(r, t, "revokeToken")) \/ Carry(r, t, "revokeFamily")
           \/ \E r \in Req :
                \/ Goto(r, Idle)
                \/ RevokeToken(r)
                \/ GetUser(r) /\ Advance(r, "issue")
                \/ UpdatePassword(r)
BY ConstantsOK DEF Next, Continue, vars, Register, LoginCheck, RefreshReused,
       RefreshAccepted, Presented, GetUser, RevokeFamily, IssueTokenPair, IssueLost,
       StoreToken, Logout, CheckPassword, RevokeAll, SetActive, DeleteExpiredTokens,
       Tick, Fail, Crash, Live

LEMMA GotoCases ==
    ASSUME TypeOK, NEW r \in Req, NEW task, Goto(r, task), NEW q \in Req
    PROVE  req'[q] = IF q = r THEN task ELSE req[q]
BY DEF Goto, TypeOK

\* A handler gets past RevokeToken in one way only.
LEMMA PastRevoke ==
    ASSUME TypeOK, [Next]_vars, NEW q \in Req,
           req'[q].pc \in {"getUser", "issue"}, req'[q].token # None
    PROVE  /\ req'[q].token = req[q].token
           /\ req[q].pc \in {"getUser", "issue"} \/ RevokeToken(q)
<1>1. CASE req' = req \/ req' = [r \in Req |-> Idle]
      BY <1>1 DEF Idle, Job
<1>2. ASSUME NEW r \in Req, NEW u \in User, NEW p \in Password,
             Goto(r, Job("issue", u, p)) \/ Goto(r, Job("updatePassword", u, p))
      PROVE  req'[q] = req[q]
      BY <1>2, GotoCases DEF Job
<1>3. ASSUME NEW r \in Req, NEW t \in DOMAIN rt,
             Carry(r, t, "revokeToken") \/ Carry(r, t, "revokeFamily")
      PROVE  req'[q] = req[q]
      BY <1>3, GotoCases DEF Carry
<1>4. ASSUME NEW r \in Req, Goto(r, Idle) PROVE req'[q] = req[q]
      BY <1>4, GotoCases DEF Idle, Job
<1>5. ASSUME NEW r \in Req, RevokeToken(r) PROVE req'[q] = req[q] \/ q = r
      BY <1>5, GotoCases DEF RevokeToken, Advance
<1>6. ASSUME NEW r \in Req, GetUser(r), Advance(r, "issue")
      PROVE  req'[q] = req[q] \/ (q = r /\ req[q].pc = "getUser")
      BY <1>6, GotoCases DEF GetUser, Advance
<1>7. ASSUME NEW r \in Req, UpdatePassword(r) PROVE req'[q] = req[q]
  <2>1. req[r] \in Task /\ req[r].token = None
        BY <1>7 DEF UpdatePassword, TypeOK, TaskOK
  <2> QED BY <1>7, <2>1, GotoCases DEF UpdatePassword, Advance, Task
<1>8. ASSUME Advance(q, "getUser") \/ Advance(q, "issue") PROVE req'[q].token = req[q].token
  <2>1. req[q] \in Task
        BY DEF TypeOK
  <2> QED BY <1>8, <2>1, GotoCases DEF Advance, Task
<1> QED BY <1>1, <1>2, <1>3, <1>4, <1>5, <1>6, <1>7, <1>8, RequestStep DEF RevokeToken

LEMMA InitRotation == Init => RotationInv
BY DEF Init, RotationInv, TradedTokenIsDead, Idle, Job

LEMMA StepRotation == TypeOK /\ RotationInv /\ [Next]_vars => RotationInv'
<1> SUFFICES ASSUME TypeOK, RotationInv, [Next]_vars PROVE RotationInv'
    OBVIOUS
<1>1. ASSUME NEW t \in exchanged' PROVE ~Live(t)'
  <2>1. CASE t \in exchanged
        BY <2>1, TokenStaysDead DEF TypeOK, RotationInv, TradedTokenIsDead
  <2>2. ASSUME NEW r \in Req, NEW x \in Token, StoreToken(r, x), t = req[r].token, t # None
        PROVE  ~Live(t)'
        BY <2>2, TokenStaysDead DEF StoreToken, TypeOK, RefersOK, RotationInv
  <2>3. exchanged' = exchanged
        \/ \E r \in Req, x \in Token : /\ StoreToken(r, x)
                                       /\ exchanged' = exchanged \cup ({req[r].token} \ {None})
        BY DEF Next, Continue, vars, Register, LoginCheck, RefreshReused, RefreshAccepted,
               RevokeToken, GetUser, RevokeFamily, IssueTokenPair, IssueLost, StoreToken,
               Logout, CheckPassword, UpdatePassword, RevokeAll, SetActive,
               DeleteExpiredTokens, Tick, Fail, Crash
  <2> QED BY <2>1, <2>2, <2>3
<1>2. ASSUME NEW r \in Req, req'[r].pc \in {"getUser", "issue"}, req'[r].token # None
      PROVE  ~Live(req[r].token)'
  <2>1. req'[r].token = req[r].token
        BY <1>2, PastRevoke
  <2> DEFINE t == req[r].token
  <2>2. t \in minted
        BY <1>2, <2>1 DEF TypeOK, RefersOK
  <2>3. CASE req[r].pc \in {"getUser", "issue"}
        BY <1>2, <2>1, <2>2, <2>3, TokenStaysDead DEF RotationInv
  <2>4. CASE RevokeToken(r)
    <3>1. PICK x : x = t
          OBVIOUS
    <3>2. ~Live(x)'
          BY <2>4, <3>1, RevokeKills DEF RevokeToken
    <3> QED BY <2>1, <3>1, <3>2 DEF Live
  <2> QED BY <1>2, <2>3, <2>4, PastRevoke
<1> QED BY <1>1, <1>2 DEF RotationInv, TradedTokenIsDead

\* Rotation, for any number of users, tokens and concurrent requests, with failures:
\* a refresh token that was traded for a successor is never accepted again.
THEOREM TradedTokensStayDead == Spec => []TradedTokenIsDead
<1>1. Spec => [](TypeOK /\ RotationInv)
      BY InitType, StepType, InitRotation, StepRotation, PTL DEF Spec
<1>2. RotationInv => TradedTokenIsDead
      BY DEF RotationInv
<1> QED BY <1>1, <1>2, PTL

-----------------------------------------------------------------------------
(* Family revocation                                                       *)

\* No step makes a handler start to renew a dead family.
LEMMA NoneRenews ==
    ASSUME TypeOK, [Next]_vars, NEW f \in Token, DeadFamily(f), NEW q \in Req
    PROVE  ~Renewing(q, f)'
<1>1. ~Renewing(q, f) /\ f # None /\ req[q] \in Task
      BY ConstantsOK DEF DeadFamily, TypeOK
<1>2. CASE req' = req
      BY <1>1, <1>2 DEF Renewing
<1>3. CASE req' = [r \in Req |-> Idle]
      BY <1>3 DEF Renewing, Idle, Job
<1>4. ASSUME NEW r \in Req, NEW u \in User, NEW p \in Password,
             Goto(r, Job("issue", u, p)) \/ Goto(r, Job("updatePassword", u, p))
      PROVE  ~Renewing(q, f)'
      BY <1>1, <1>4, GotoCases DEF Job, Renewing
<1>5. ASSUME NEW r \in Req, NEW t \in DOMAIN rt,
             (Live(t) /\ Carry(r, t, "revokeToken")) \/ Carry(r, t, "revokeFamily")
      PROVE  ~Renewing(q, f)'
      BY <1>1, <1>5, GotoCases DEF Carry, Renewing, DeadFamily, Live
<1>6. ASSUME NEW r \in Req, Goto(r, Idle) PROVE ~Renewing(q, f)'
      BY <1>1, <1>6, GotoCases DEF Idle, Job, Renewing
<1>7. ASSUME NEW r \in Req, NEW pc, req[r].pc \in {"revokeToken", "getUser"} \/ pc = "revokeAll",
             Advance(r, pc)
      PROVE  ~Renewing(q, f)'
  <2>1. req[r] \in Task
        BY DEF TypeOK
  <2>2. CASE q = r
        BY <1>1, <1>7, <2>1, <2>2, GotoCases DEF Advance, Renewing, Task
  <2>3. CASE q # r
        BY <1>1, <1>7, <2>3, GotoCases DEF Advance, Renewing
  <2> QED BY <2>2, <2>3
<1> QED BY <1>2, <1>3, <1>4, <1>5, <1>6, <1>7, RequestStep
        DEF RevokeToken, GetUser, UpdatePassword

\* No step gives a dead family a live row.
LEMMA NoLiveRow ==
    ASSUME TypeOK, [Next]_vars, NEW f \in Token, DeadFamily(f),
           NEW t \in DOMAIN rt', rt'[t].family = f
    PROVE  rt'[t].revoked
<1>1. \A x \in DOMAIN rt : rt[x].family = f => rt[x].revoked
      BY DEF DeadFamily
<1>2. CASE rt' = rt
      BY <1>1, <1>2
<1>3. CASE \E S : Revoke(S)
      BY <1>1, <1>3, RevokeEffect DEF TypeOK
<1>4. ASSUME NEW r \in Req, NEW x \in Token, StoreToken(r, x) PROVE t \in DOMAIN rt /\ rt'[t] = rt[t]
  <2>1. FamilyFor(r, x) # f
        BY <1>4 DEF StoreToken, FamilyFor, DeadFamily, Renewing
  <2> QED BY <1>4, <2>1, StoreEffect
<1>5. CASE DeleteExpiredTokens
      BY <1>1, <1>5 DEF DeleteExpiredTokens
<1> QED BY <1>1, <1>2, <1>3, <1>4, <1>5, RowStep

\* Only the INSERT mints a token.
LEMMA MintedStep ==
    ASSUME [Next]_vars
    PROVE  minted' = minted \/ \E r \in Req, t \in Token : StoreToken(r, t)
BY DEF Next, Continue, vars, Register, LoginCheck, RefreshReused, RefreshAccepted,
       RevokeToken, GetUser, RevokeFamily, IssueTokenPair, IssueLost,
       Logout, CheckPassword, UpdatePassword, RevokeAll, SetActive,
       DeleteExpiredTokens, Tick, Fail, Crash

\* Family revocation is final, for any number of concurrent requests and whatever
\* fails: no step revives a session that has no live token and no handler at work.
THEOREM DeadFamiliesStayDead == Spec => DeadFamilyStaysDead
<1>1. TypeOK /\ [Next]_vars => [\A f \in Token : DeadFamily(f) => DeadFamily(f)']_vars
      BY NoneRenews, NoLiveRow, MintedStep DEF DeadFamily, StoreToken
<1> QED BY <1>1, TypeCorrect, PTL DEF Spec, DeadFamilyStaysDead

-----------------------------------------------------------------------------
(* Families and users                                                      *)

\* Who owns a family after a step owned it before, unless the step opened it.
LEMMA OwnerStep ==
    ASSUME TypeOK, [Next]_vars, NEW f \in minted, NEW u \in User, Owns(u, f)'
    PROVE  Owns(u, f)
<1>1. ASSUME NEW t \in DOMAIN rt', rt'[t].family = f, rt'[t].user = u PROVE Owns(u, f)
  <2>1. CASE rt' = rt
        BY <1>1, <2>1 DEF Owns
  <2>2. CASE \E S : Revoke(S)
        BY <1>1, <2>2, RevokeEffect DEF TypeOK, Owns
  <2>3. ASSUME NEW r \in Req, NEW x \in Token, StoreToken(r, x) PROVE Owns(u, f)
    <3>1. CASE t # x
      <4>1. t \in DOMAIN rt /\ rt'[t] = rt[t]
            BY <2>3, <3>1, StoreEffect
      <4> QED BY <1>1, <4>1 DEF Owns
    <3>2. CASE t = x
      <4>1. FamilyFor(r, x) = f /\ req[r].user = u /\ f # x
            BY <1>1, <2>3, <3>2, StoreEffect
      <4>2. req[r].pc = "issue" /\ req[r].family = f
            BY <2>3, <4>1 DEF StoreToken, FamilyFor
      <4> QED BY <4>1, <4>2 DEF Owns, Renewing
    <3> QED BY <3>1, <3>2
  <2>4. CASE DeleteExpiredTokens
        BY <1>1, <2>4 DEF DeleteExpiredTokens, Owns
  <2> QED BY <2>1, <2>2, <2>3, <2>4, RowStep
<1>2. ASSUME NEW q \in Req, Renewing(q, f)', req'[q].user = u PROVE Owns(u, f)
  <2>1. f # None /\ req[q] \in Task
        BY ConstantsOK DEF TypeOK
  <2>2. CASE req'[q] = req[q]
        BY <1>2, <2>2 DEF Owns, Renewing
  <2>3. CASE req' = [r \in Req |-> Idle]
        BY <1>2, <2>3 DEF Renewing, Idle, Job
  <2>4. ASSUME NEW r \in Req, NEW v \in User, NEW p \in Password,
               Goto(r, Job("issue", v, p)) \/ Goto(r, Job("updatePassword", v, p))
        PROVE  req'[q] = req[q]
        BY <1>2, <2>1, <2>4, GotoCases DEF Job, Renewing
  <2>5. ASSUME NEW r \in Req, NEW t \in DOMAIN rt,
               (Live(t) /\ Carry(r, t, "revokeToken")) \/ Carry(r, t, "revokeFamily")
        PROVE  Owns(u, f) \/ req'[q] = req[q]
        BY <1>2, <2>5, GotoCases DEF Carry, Renewing, Owns
  <2>6. ASSUME NEW r \in Req, Goto(r, Idle) PROVE req'[q] = req[q]
        BY <1>2, <2>6, GotoCases DEF Idle, Job, Renewing
  <2>7. ASSUME NEW r \in Req, NEW pc,
               req[r].pc \in {"revokeToken", "getUser"} \/ pc = "revokeAll", Advance(r, pc)
        PROVE  Owns(u, f) \/ req'[q] = req[q]
        BY <1>2, <2>1, <2>7, GotoCases DEF Advance, Renewing, Task, Owns
  <2> QED BY <2>2, <2>3, <2>4, <2>5, <2>6, <2>7, RequestStep
          DEF RevokeToken, GetUser, UpdatePassword
<1> QED BY <1>1, <1>2 DEF Owns

\* The login that opens a family is its only owner.
LEMMA OpenerOwns ==
    ASSUME TypeOK, [Next]_vars, NEW f \in Token, f \notin minted,
           NEW u \in User, NEW v \in User, Owns(u, f)', Owns(v, f)'
    PROVE  u = v
<1>1. TypeOK'
      BY StepType
<1>2. f \in minted'
      BY <1>1, ConstantsOK DEF TypeOK, RefersOK, Owns, Renewing
<1>3. PICK r \in Req : StoreToken(r, f)
  <2>1. PICK r \in Req, t \in Token : StoreToken(r, t)
        BY <1>2, MintedStep
  <2>2. minted' = minted \cup {t}
        BY <2>1 DEF StoreToken
  <2>3. t = f
        BY <1>2, <2>2
  <2> QED BY <2>1, <2>3
<1>4. ASSUME NEW w \in User, Owns(w, f)' PROVE w = req[r].user
  <2>1. \A q \in Req : ~Renewing(q, f)'
    <3>1. \A q \in Req : req[q].family # f
          BY ConstantsOK DEF TypeOK, RefersOK
    <3>2. \A q \in Req : req'[q] = IF q = r THEN Idle ELSE req[q]
          BY <1>3, GotoCases DEF StoreToken
    <3> QED BY <3>1, <3>2 DEF Renewing, Idle, Job
  <2>2. PICK t \in DOMAIN rt' : rt'[t].family = f /\ rt'[t].user = w
        BY <1>4, <2>1 DEF Owns
  <2>3. t = f
    <3>1. DOMAIN rt' = DOMAIN rt \cup {f} /\ \A x \in DOMAIN rt : rt'[x] = rt[x]
          BY <1>3, StoreEffect
    <3>2. \A x \in DOMAIN rt : rt[x].family # f
          BY DEF TypeOK
    <3>3. ASSUME t \in DOMAIN rt PROVE FALSE
      <4>1. rt'[t] = rt[t]
            BY <3>1, <3>3
      <4> QED BY <2>2, <3>2, <3>3, <4>1
    <3> QED BY <2>2, <3>1, <3>3
  <2>4. rt'[f].user = req[r].user
        BY <1>3, StoreEffect
  <2> QED BY <2>2, <2>3, <2>4
<1> QED BY <1>4

LEMMA StepFamily == TypeOK /\ FamilyHasOneUser /\ [Next]_vars => FamilyHasOneUser'
<1> SUFFICES ASSUME TypeOK, FamilyHasOneUser, [Next]_vars, NEW f \in Token,
                    NEW u \in User, NEW v \in User, Owns(u, f)', Owns(v, f)'
             PROVE  u = v
    BY DEF FamilyHasOneUser
<1>1. CASE f \in minted
      BY <1>1, OwnerStep DEF FamilyHasOneUser
<1>2. CASE f \notin minted
      BY <1>2, OpenerOwns
<1> QED BY <1>1, <1>2

\* The tokens of a session, and the handlers renewing it, never mix two users, for any
\* number of users and concurrent requests.
THEOREM FamiliesHaveOneUser == Spec => []FamilyHasOneUser
<1>1. Init => FamilyHasOneUser
      BY DEF Init, FamilyHasOneUser, Owns, Renewing, Idle, Job
<1> QED BY <1>1, InitType, StepType, StepFamily, PTL DEF Spec
=============================================================================
