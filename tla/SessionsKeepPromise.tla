------------------------ MODULE SessionsKeepPromise -------------------------
(* Under the whole discipline the service implements the session the       *)
(* README promises, for every value of the constants.                      *)
EXTENDS SessionsDisciplined

\* A token a handler carries belongs to the session it carries.
CarriesItsFamily ==
    /\ \A q, r \in Req :
         req[q].token # None /\ req[q].token = req[r].token => req[q].family = req[r].family
    /\ \A r \in Req : \A t \in DOMAIN rt : req[r].token = t => rt[t].family = req[r].family

PromiseInv ==
    TypeOK /\ FamilyHasOneUser /\ Alone /\ RotationSerial /\ StaleInChange /\ CarriesItsFamily

\* Client and service agree that t is the token of session f: it lies in the table and can
\* be used, or the handler of a refresh has it.
Serves(t, f) ==
    \/ t \in AtRest /\ rt[t].family = f
    \/ \E r \in Req : Renewing(r, f) /\ req[r].token = t /\ t # None

-----------------------------------------------------------------------------
(* The invariant                                                           *)

\* Where a handler has its token from.
LEMMA CarriedStep ==
    ASSUME TypeOK, [Next]_vars, NEW q \in Req, req'[q].token # None
    PROVE  \/ req'[q].token = req[q].token /\ req'[q].family = req[q].family
           \/ /\ req'[q].token \in DOMAIN rt /\ rt' = rt
              /\ req'[q].family = rt[req'[q].token].family
              /\ \A r \in Req : r # q => req'[r] = req[r]
<1> DEFINE Goal == \/ req'[q].token = req[q].token /\ req'[q].family = req[q].family
                   \/ /\ req'[q].token \in DOMAIN rt /\ rt' = rt
                      /\ req'[q].family = rt[req'[q].token].family
                      /\ \A r \in Req : r # q => req'[r] = req[r]
<1>1. CASE req'[q] = req[q]
      BY <1>1
<1>2. CASE req' = [r \in Req |-> Idle]
      BY <1>2 DEF Idle, Job
<1>3. ASSUME NEW r \in Req, NEW pc, NEW u, NEW p, Goto(r, Job(pc, u, p))
      PROVE  req'[q] = req[q]
      BY <1>3, GotoCases DEF Job
<1>4. ASSUME NEW r \in Req, NEW pc, Advance(r, pc) PROVE Goal
  <2>1. req[r] \in Task
        BY DEF TypeOK
  <2> QED BY <1>4, <2>1, GotoCases DEF Advance, Task
<1>5. ASSUME NEW r \in Req, NEW t \in Token, RefreshReused(r, t) \/ RefreshAccepted(r, t)
      PROVE  Goal
  <2>1. PICK pc : Carry(r, t, pc)
        BY <1>5 DEF RefreshReused, RefreshAccepted
  <2>2. rt' = rt /\ t \in DOMAIN rt
        BY <1>5 DEF RefreshReused, RefreshAccepted, Presented
  <2> QED BY <2>1, <2>2, GotoCases DEF Carry
<1> QED BY <1>1, <1>2, <1>3, <1>4, <1>5 DEF Next, Continue, vars, Register, LoginCheck,
       RevokeToken, GetUser, RevokeFamily, IssueTokenPair, IssueLost, StoreToken, Logout,
       CheckPassword, UpdatePassword, RevokeAll, SetActive, DeleteExpiredTokens, Tick, Fail,
       Crash, Idle

LEMMA CarriesStep ==
    ASSUME Inv, CarriesItsFamily, [Next]_vars
    PROVE  CarriesItsFamily'
<1>1. ASSUME NEW q \in Req, NEW r \in Req, req'[q].token # None, req'[q].token = req'[r].token
      PROVE  req'[q].family = req'[r].family
  <2> DEFINE Kept(x) == req'[x].token = req[x].token /\ req'[x].family = req[x].family
             Taken(x) == /\ req'[x].token \in DOMAIN rt
                         /\ req'[x].family = rt[req'[x].token].family
  <2>1. CASE Kept(q) /\ Kept(r)
        BY <1>1, <2>1 DEF CarriesItsFamily
  <2>2. CASE Kept(q) /\ Taken(r)
        BY <1>1, <2>2 DEF CarriesItsFamily
  <2>3. CASE Taken(q) /\ Kept(r)
        BY <1>1, <2>3 DEF CarriesItsFamily
  <2>4. CASE Taken(q) /\ Taken(r)
        BY <1>1, <2>4
  <2> QED BY <1>1, <2>1, <2>2, <2>3, <2>4, CarriedStep DEF Inv
<1>2. ASSUME NEW r \in Req, NEW t \in DOMAIN rt', req'[r].token = t
      PROVE  rt'[t].family = req'[r].family
  <2>1. t \in Token /\ t # None
        BY InvStep, ConstantsOK DEF Inv, TypeOK
  <2>2. CASE rt' = rt /\ req'[r].family = rt[req'[r].token].family
        BY <1>2, <2>2
  <2>3. CASE req'[r].token = req[r].token /\ req'[r].family = req[r].family
    <3>1. t \in minted
          BY <1>2, <2>1, <2>3 DEF Inv, TypeOK, RefersOK
    <3>2. t \in DOMAIN rt
      <4>1. ASSUME NEW q \in Req, NEW x \in Token, StoreToken(q, x) PROVE t \in DOMAIN rt
            BY <3>1, <4>1, StoreEffect DEF Inv
      <4>2. CASE \E S : Revoke(S)
            BY <4>2 DEF Revoke
      <4> QED BY <4>1, <4>2, RowStep DEF DeleteExpiredTokens
    <3> QED BY <1>2, <2>3, <3>2, FamilyKept DEF CarriesItsFamily
  <2> QED BY <1>2, <2>1, <2>2, <2>3, CarriedStep DEF Inv
<1> QED BY <1>1, <1>2 DEF CarriesItsFamily

LEMMA InitPromiseInv == Init => PromiseInv
BY InitType, InitAlone DEF Init, PromiseInv, FamilyHasOneUser, Owns, Renewing, StaleInChange,
   CarriesItsFamily, Idle, Job

LEMMA PromiseInvStep ==
    PromiseInv /\ [Next /\ Alone' /\ RevocationsDone]_vars => PromiseInv'
<1> SUFFICES ASSUME PromiseInv, [Next /\ Alone' /\ RevocationsDone]_vars PROVE PromiseInv'
    OBVIOUS
<1>1. CASE UNCHANGED vars
  <2>1. Alone' /\ StaleInChange'
        BY <1>1 DEF vars, PromiseInv, Alone, RenewsAlone, RevokesAlone, ChangesAlone, Storing,
                    Renewing, StaleInChange, Stale, Live, VerifyPassword
  <2> QED BY <1>1, <2>1, StepType, StepFamily, RotationStep, CarriesStep
          DEF PromiseInv, Alone, Inv
<1>2. CASE Next /\ Alone' /\ RevocationsDone
      BY <1>2, StepType, StepFamily, RotationStep, StaleStep, CarriesStep
      DEF PromiseInv, Alone, Inv
<1> QED BY <1>1, <1>2

\* What PromiseInv says, conjunct by conjunct.
LEMMA PromiseFacts ==
    ASSUME PromiseInv
    PROVE  /\ TypeOK /\ Inv /\ RenewsAlone /\ RevokesAlone /\ ChangesAlone
           /\ OneLiveTokenPerFamily /\ RenewalHoldsToken /\ StaleInChange
BY DEF PromiseInv, Alone, RotationSerial, Inv

-----------------------------------------------------------------------------
(* One token per session, and one session per token                        *)

LEMMA ServesTypes ==
    ASSUME PromiseInv, NEW t, NEW f, Serves(t, f)
    PROVE  /\ t \in minted /\ f \in minted /\ t \in Token /\ f \in Token
           /\ \E u \in User : Owns(u, f)
<1>1. TypeOK
      BY PromiseFacts
<1>2. CASE t \in AtRest /\ rt[t].family = f
  <2>1. t \in DOMAIN rt /\ rt[t].user \in User
        BY <1>1, <1>2 DEF AtRest, TypeOK
  <2> QED BY <1>1, <1>2, <2>1 DEF TypeOK, Owns
<1>3. ASSUME NEW r \in Req, Renewing(r, f), req[r].token = t, t # None
      PROVE  /\ t \in minted /\ f \in minted
             /\ req[r].user \in User /\ Owns(req[r].user, f)
  <2>1. req[r] \in Task /\ TaskOK(req[r]) /\ RefersOK(req[r]) /\ req[r].pc # "idle"
        BY <1>1, <1>3 DEF TypeOK, Renewing
  <2>2. req[r].user \in User
        BY <2>1 DEF Task, TaskOK
  <2>3. f # None
        BY <1>3, <2>1 DEF TaskOK, Renewing
  <2> QED BY <1>1, <1>3, <2>1, <2>2, <2>3 DEF RefersOK, Renewing, Owns
<1> QED BY <1>1, <1>2, <1>3 DEF Serves, TypeOK

LEMMA SessionUnique ==
    ASSUME PromiseInv, NEW t, NEW f, NEW g, Serves(t, f), Serves(t, g)
    PROVE  f = g
<1>1. CarriesItsFamily
      BY DEF PromiseInv
<1>2. \A r \in Req : Renewing(r, f) \/ Renewing(r, g) =>
        req[r].family = IF Renewing(r, f) THEN f ELSE g
      BY DEF Renewing
<1> QED BY <1>1, <1>2 DEF Serves, AtRest, CarriesItsFamily, Renewing

LEMMA TokenUnique ==
    ASSUME PromiseInv, NEW s, NEW t, NEW f, Serves(s, f), Serves(t, f)
    PROVE  s = t
<1>1. RenewsAlone /\ OneLiveTokenPerFamily /\ f \in Token
      BY PromiseFacts, ServesTypes
<1>2. CASE s \in AtRest /\ t \in AtRest /\ rt[s].family = f /\ rt[t].family = f
      BY <1>1, <1>2 DEF AtRest, Usable, OneLiveTokenPerFamily
<1>3. ASSUME NEW x \in AtRest, rt[x].family = f, NEW r \in Req, Renewing(r, f) PROVE FALSE
      BY <1>3 DEF AtRest
<1>4. ASSUME NEW q \in Req, NEW r \in Req, Renewing(q, f), Renewing(r, f) PROVE q = r
      BY <1>1, <1>4 DEF RenewsAlone
<1> QED BY <1>2, <1>3, <1>4 DEF Serves

\* The mapping of the refinement, as a relation.
LEMMA ServedIsServes ==
    PromiseInv =>
        /\ DOMAIN Served \subseteq Token
        /\ \A t, f \in Token : (t \in DOMAIN Served /\ Served[t] = f) <=> Serves(t, f)
        /\ \A t \in DOMAIN Served : Serves(t, Served[t])
<1> SUFFICES ASSUME PromiseInv
             PROVE  \A t : /\ t \in DOMAIN Served => Serves(t, Served[t])
                           /\ \A f : Serves(t, f) => t \in DOMAIN Served
    BY ServesTypes, SessionUnique
<1>1. ASSUME NEW t, NEW f, Serves(t, f) PROVE t \in DOMAIN Served
  <2>1. f \in Token
        BY <1>1, ServesTypes
  <2> QED BY <1>1, <2>1 DEF Serves, Served, InHand
<1>2. ASSUME NEW t \in DOMAIN Served PROVE Serves(t, Served[t])
  <2>1. Served[t] = SessionOf(t) /\ t \in AtRest \cup InHand
        BY DEF Served
  <2>2. CASE t \in AtRest
        BY <2>1, <2>2 DEF SessionOf, Serves
  <2>3. CASE t \notin AtRest
    <3>1. t # None /\ \E f \in Token : \E r \in Req : Renewing(r, f) /\ req[r].token = t
          BY <2>1, <2>3 DEF InHand
    <3>2. \E r \in Req : Renewing(r, SessionOf(t)) /\ req[r].token = t
          BY <2>3, <3>1 DEF SessionOf
    <3> QED BY <2>1, <3>1, <3>2 DEF Serves
  <2> QED BY <2>2, <2>3
<1> QED BY <1>1, <1>2

-----------------------------------------------------------------------------
(* Steps without an INSERT                                                 *)

LEMMA AloneAfter == PromiseInv' => RenewsAlone' /\ RevokesAlone' /\ ChangesAlone'
<1>1. PromiseInv => RenewsAlone /\ RevokesAlone /\ ChangesAlone
      BY PromiseFacts
<1> QED BY <1>1, PTL

\* When a password changes, nothing is left of what the one before it replaced.
LEMMA CleanUser ==
    ASSUME PromiseInv, PromiseInv', NEW r \in Req, UpdatePassword(r)
    PROVE  req[r].user \in DOMAIN users /\ Stale(req[r].user) = {}
<1>1. TypeOK /\ StaleInChange /\ ChangesAlone'
      BY PromiseFacts, AloneAfter
<1>2. req[r].pc = "updatePassword" /\ req[r] \in Task
      BY <1>1 DEF UpdatePassword, TypeOK
<1>3. req[r].user \in DOMAIN users
      BY <1>1, <1>2 DEF TypeOK, TaskOK, RefersOK
<1>4. req'[r].pc = "revokeAll" /\ req'[r].user = req[r].user
      BY <1>1, <1>2, GotoCases DEF UpdatePassword, Advance, Task
<1>5. \A q \in Req : q # r => req'[q] = req[q]
      BY <1>1, GotoCases DEF UpdatePassword, Advance
<1>6. \A q \in Req : ~(req[q].pc = "revokeAll" /\ req[q].user = req[r].user)
      BY <1>1, <1>2, <1>4, <1>5 DEF ChangesAlone
<1> QED BY <1>1, <1>3, <1>6 DEF StaleInChange

LEMMA ClockStep ==
    ASSUME TypeOK, [Next]_vars
    PROVE  now' \in Nat /\ now \in Nat /\ now <= now'
<1>1. now' = now \/ now' = now + 1
      BY DEF Next, Continue, vars, Register, LoginCheck, RefreshReused, RefreshAccepted,
             RevokeToken, GetUser, RevokeFamily, IssueTokenPair, IssueLost, StoreToken, Logout,
             CheckPassword, UpdatePassword, RevokeAll, SetActive, DeleteExpiredTokens, Tick,
             Fail, Crash
<1> QED BY <1>1 DEF TypeOK

\* A row that serves after the step served before, or was in a handler's hand.
LEMMA RestStep ==
    ASSUME PromiseInv, [Next]_vars, PromiseInv', minted' = minted, NEW t \in AtRest'
    PROVE  Serves(t, rt'[t].family)
<1>1. TypeOK /\ RenewalHoldsToken
      BY PromiseFacts
<1>2. t \in DOMAIN rt' /\ Live(t)' /\ ~Expired(t)'
      BY DEF AtRest, Usable
<1>3. ~\E r \in Req : t \in Token /\ StoreToken(r, t)
      BY DEF StoreToken
<1>4. /\ t \in DOMAIN rt /\ Live(t)
      /\ rt'[t].user = rt[t].user /\ rt'[t].family = rt[t].family
      /\ rt'[t].auth = rt[t].auth /\ rt'[t].expires = rt[t].expires
      BY <1>1, <1>2, <1>3, LiveRow
<1>5. rt[t] \in Row /\ rt[t].user \in DOMAIN users /\ t \in Token /\ t # None
      BY <1>1, <1>4, ConstantsOK DEF TypeOK
<1>6. ~Expired(t)
  <2>1. rt[t].expires \in Nat /\ ~(now' > rt[t].expires)
        BY <1>2, <1>4, <1>5 DEF Expired, Row
  <2> QED BY <1>1, <2>1, ClockStep DEF Expired
<1>7. VerifyPassword(rt[t].auth, rt[t].user)
  <2>1. CASE users'[rt[t].user].secret = users[rt[t].user].secret
    <3>1. users'[rt'[t].user].secret = rt'[t].auth
          BY DEF AtRest, VerifyPassword
    <3> QED BY <1>4, <2>1, <3>1 DEF VerifyPassword
  <2>2. ASSUME NEW r \in Req, UpdatePassword(r), req[r].user = rt[t].user
        PROVE  VerifyPassword(rt[t].auth, rt[t].user)
    <3>1. Stale(rt[t].user) = {}
          BY <2>2, CleanUser
    <3> QED BY <1>4, <3>1 DEF Stale
  <2> QED BY <1>1, <1>5, <2>1, <2>2, SecretStep
<1>8. CASE \A r \in Req : ~Renewing(r, rt[t].family)
      BY <1>4, <1>6, <1>7, <1>8 DEF Serves, AtRest, Usable
<1>9. ASSUME NEW r \in Req, Renewing(r, rt[t].family) PROVE Serves(t, rt[t].family)
      BY <1>1, <1>4, <1>5, <1>9 DEF RenewalHoldsToken, Serves
<1> QED BY <1>4, <1>8, <1>9

\* The token a handler has is the one it had, or one that served.
LEMMA HandStep ==
    ASSUME PromiseInv, [Next]_vars, PromiseInv', NEW r \in Req, NEW t \in Token, NEW f \in Token,
           Renewing(r, f)', req'[r].token = t
    PROVE  Serves(t, f)
<1>1. TypeOK /\ StaleInChange /\ t # None
      BY PromiseFacts, ConstantsOK
<1>2. RenewsAlone' /\ RevokesAlone'
      BY AloneAfter
<1>3. CASE Renewing(r, f) /\ req'[r].token = req[r].token
      BY <1>1, <1>3 DEF Serves
<1>4. ASSUME RefreshAccepted(r, t), rt[t].family = f, req'[r].user = rt[t].user
      PROVE  Serves(t, f)
  <2>1. /\ t \in DOMAIN rt /\ Live(t) /\ ~Expired(t) /\ req[r] = Idle
        BY <1>4 DEF RefreshAccepted, Presented, Live
  <2>2. \A q \in Req : q # r => req'[q] = req[q]
        BY <1>1, <1>4, GotoCases DEF RefreshAccepted, Carry
  <2>3. rt[t].user \in DOMAIN users /\ rt[t].user # None
        BY <1>1, <2>1, ConstantsOK DEF TypeOK
  <2>4. Stale(rt[t].user) = {}
    <3>1. \A q \in Req : req[q].user = rt[t].user => req[q].pc # "revokeAll"
          BY <1>2, <1>4, <2>1, <2>2 DEF RevokesAlone, Storing, Renewing, Idle, Job
    <3> QED BY <1>1, <2>3, <3>1 DEF StaleInChange
  <2>5. VerifyPassword(rt[t].auth, rt[t].user)
        BY <2>1, <2>4 DEF Stale
  <2>6. \A q \in Req : ~Renewing(q, f)
    <3> SUFFICES ASSUME NEW q \in Req, Renewing(q, f) PROVE FALSE
        OBVIOUS
    <3>1. q # r
          BY <2>1 DEF Renewing, Idle, Job
    <3>2. Renewing(q, f)'
          BY <2>2, <3>1 DEF Renewing
    <3> QED BY <1>2, <3>1, <3>2 DEF RenewsAlone
  <2> QED BY <1>4, <2>1, <2>5, <2>6 DEF Serves, AtRest, Usable
<1> QED BY <1>1, <1>3, <1>4, RenewingStep

LEMMA ServesShrinks ==
    ASSUME PromiseInv, [Next]_vars, PromiseInv', minted' = minted,
           NEW t \in Token, NEW f \in Token, Serves(t, f)'
    PROVE  Serves(t, f)
<1>1. CASE t \in AtRest' /\ rt'[t].family = f
      BY <1>1, RestStep
<1>2. ASSUME NEW r \in Req, Renewing(r, f)', req'[r].token = t PROVE Serves(t, f)
      BY <1>2, HandStep
<1> QED BY <1>1, <1>2 DEF Serves

-----------------------------------------------------------------------------
(* The INSERT                                                              *)

LEMMA InsertFacts ==
    ASSUME PromiseInv, NEW r \in Req, NEW x \in Token, StoreToken(r, x)
    PROVE  /\ x \notin minted /\ minted' = minted \cup {x} /\ users' = users /\ now' = now
           /\ DOMAIN rt' = DOMAIN rt \cup {x} /\ \A t \in DOMAIN rt : rt'[t] = rt[t]
           /\ FamilyFor(r, x) \in Token /\ req[r].pc = "issue"
           /\ \A q \in Req : req'[q] = IF q = r THEN Idle ELSE req[q]
           /\ \A q \in Req : q # r => ~Renewing(q, FamilyFor(r, x))
<1>1. TypeOK /\ RenewsAlone
      BY PromiseFacts
<1>2. /\ x \notin minted /\ minted' = minted \cup {x} /\ users' = users /\ now' = now
      /\ req[r].pc = "issue"
      BY DEF StoreToken
<1>3. \A q \in Req : req'[q] = IF q = r THEN Idle ELSE req[q]
      BY <1>1, GotoCases DEF StoreToken
<1>4. FamilyFor(r, x) \in Token
      BY <1>1 DEF TypeOK, RefersOK, FamilyFor
<1>5. ASSUME NEW q \in Req, q # r PROVE ~Renewing(q, FamilyFor(r, x))
  <2>1. CASE req[r].family = None
    <3>1. FamilyFor(r, x) = x /\ x # None
          BY <2>1, ConstantsOK DEF FamilyFor
    <3>2. req[q].family # x
          BY <1>1, <1>2, <3>1 DEF TypeOK, RefersOK
    <3> QED BY <3>1, <3>2 DEF Renewing
  <2>2. CASE req[r].family # None
        BY <1>1, <1>2, <1>4, <1>5, <2>2 DEF FamilyFor, RenewsAlone, Renewing
  <2> QED BY <2>1, <2>2
<1> QED BY <1>1, <1>2, <1>3, <1>4, <1>5, StoreEffect

\* The stored token serves its session.
LEMMA InsertServes ==
    ASSUME PromiseInv, NEW r \in Req, NEW x \in Token, StoreToken(r, x),
           NEW g \in Token, g = FamilyFor(r, x)
    PROVE  Serves(x, g)'
<1> DEFINE u == req[r].user
<1>1. TypeOK
      BY PromiseFacts
<1>2. /\ x \in DOMAIN rt' /\ ~rt'[x].revoked /\ rt'[x].user = u
      /\ rt'[x].family = g /\ rt'[x].auth = req[r].secret
      BY <1>1, StoreEffect
<1>3. Live(x)'
      BY <1>2 DEF Live
<1>4. ~Expired(x)'
  <2>1. rt'[x].expires = now + RefreshTTL
        BY DEF StoreToken
  <2>2. now' = now /\ now \in Nat /\ RefreshTTL \in Nat
        BY <1>1, InsertFacts, ConstantsOK DEF TypeOK
  <2>3. ~(now > now + RefreshTTL)
        BY <2>2
  <2> QED BY <2>1, <2>2, <2>3 DEF Expired
<1>5. VerifyPassword(rt[x].auth, rt[x].user)'
  <2>1. u # None /\ req[r].pc = "issue"
        BY <1>1, InsertFacts DEF TypeOK, TaskOK
  <2>2. Stale(u) = {}
    <3>1. ~\E q \in Req : req[q].pc = "revokeAll" /\ req[q].user = u
          BY <2>1, PromiseFacts DEF RevokesAlone, Storing
    <3>2. u \in DOMAIN users
          BY <1>1, <2>1 DEF TypeOK, RefersOK
    <3> QED BY <3>1, <3>2, PromiseFacts DEF StaleInChange
  <2>3. users[u].secret = req[r].secret
        BY <2>1, <2>2 DEF Stale, VerifyPassword
  <2> QED BY <1>2, <2>3, InsertFacts DEF VerifyPassword
<1>6. \A q \in Req : ~Renewing(q, g)'
  <2>1. /\ \A q \in Req : req'[q] = IF q = r THEN Idle ELSE req[q]
        /\ \A q \in Req : q # r => ~Renewing(q, g)
        BY InsertFacts
  <2> QED BY <2>1 DEF Renewing, Idle, Job
<1>7. x \in AtRest'
      BY <1>2, <1>3, <1>4, <1>5, <1>6 DEF AtRest, Usable, Renewing
<1> QED BY <1>2, <1>7 DEF Serves

\* The other sessions do not notice.
LEMMA InsertFrame ==
    ASSUME PromiseInv, NEW r \in Req, NEW x \in Token, StoreToken(r, x),
           NEW g \in Token, g = FamilyFor(r, x),
           NEW t \in Token, t # x, NEW f \in Token, f # g
    PROVE  Serves(t, f)' <=> Serves(t, f)
<1>1. /\ DOMAIN rt' = DOMAIN rt \cup {x} /\ \A y \in DOMAIN rt : rt'[y] = rt[y]
      /\ users' = users /\ now' = now
      /\ \A q \in Req : req'[q] = IF q = r THEN Idle ELSE req[q]
      BY InsertFacts
<1>2. ~Renewing(r, f) /\ ~Renewing(r, f)'
  <2>1. req[r].family # f
        BY ConstantsOK DEF FamilyFor
  <2> QED BY <1>1, <2>1 DEF Renewing, Idle, Job
<1>3. \A q \in Req : Renewing(q, f)' <=> Renewing(q, f)
      BY <1>1, <1>2 DEF Renewing
<1>4. \A q \in Req : Renewing(q, f) => req'[q].token = req[q].token
      BY <1>1, <1>2
<1>5. t \in AtRest' /\ rt'[t].family = f <=> t \in AtRest /\ rt[t].family = f
  <2>1. t \in DOMAIN rt' <=> t \in DOMAIN rt
        BY <1>1
  <2>2. ASSUME t \in DOMAIN rt, rt[t].family = f PROVE t \in AtRest' <=> t \in AtRest
    <3>1. rt'[t] = rt[t]
          BY <1>1, <2>2
    <3>2. Usable(t)' <=> Usable(t)
          BY <1>1, <2>1, <3>1 DEF Usable, Live, Expired
    <3>3. VerifyPassword(rt[t].auth, rt[t].user)' <=> VerifyPassword(rt[t].auth, rt[t].user)
          BY <1>1, <3>1 DEF VerifyPassword
    <3>4. (\A q \in Req : ~Renewing(q, rt[t].family))' <=> \A q \in Req : ~Renewing(q, f)
          BY <1>3, <2>2, <3>1 DEF Renewing
    <3> QED BY <2>1, <2>2, <3>2, <3>3, <3>4 DEF AtRest
  <2>3. t \in DOMAIN rt => rt'[t] = rt[t]
        BY <1>1
  <2> QED BY <2>1, <2>2, <2>3 DEF AtRest
<1> QED BY <1>3, <1>4, <1>5 DEF Serves

\* The same facts after a step.
LEMMA ServesAfter ==
    PromiseInv' =>
        /\ \A s, t, f \in Token : Serves(s, f)' /\ Serves(t, f)' => s = t
        /\ \A t, f, g \in Token : Serves(t, f)' /\ Serves(t, g)' => f = g
        /\ \A t, f \in Token : Serves(t, f)' => \E u \in User : Owns(u, f)'
        /\ DOMAIN Served' \subseteq Token
        /\ \A t, f \in Token : (t \in DOMAIN Served' /\ Served'[t] = f) <=> Serves(t, f)'
        /\ \A t \in DOMAIN Served' : Served'[t] \in Token
<1> DEFINE Facts ==
        /\ \A s, t, f \in Token : Serves(s, f) /\ Serves(t, f) => s = t
        /\ \A t, f, g \in Token : Serves(t, f) /\ Serves(t, g) => f = g
        /\ \A t, f \in Token : Serves(t, f) => \E u \in User : Owns(u, f)
        /\ DOMAIN Served \subseteq Token
        /\ \A t, f \in Token : (t \in DOMAIN Served /\ Served[t] = f) <=> Serves(t, f)
        /\ \A t \in DOMAIN Served : Served[t] \in Token
<1>1. PromiseInv => Facts
  <2> SUFFICES ASSUME PromiseInv PROVE Facts
      OBVIOUS
  <2>1. \A t \in DOMAIN Served : Served[t] \in Token
        BY ServedIsServes, ServesTypes
  <2> QED BY <2>1, TokenUnique, SessionUnique, ServesTypes, ServedIsServes
<1>2. (PromiseInv => Facts)'
      BY <1>1, PTL
<1> QED BY <1>2

LEMMA ServesAfterInsert ==
    ASSUME PromiseInv, PromiseInv', NEW r \in Req, NEW x \in Token, StoreToken(r, x),
           NEW g \in Token, g = FamilyFor(r, x), NEW t \in Token, NEW f \in Token
    PROVE  Serves(t, f)' <=> (t = x /\ f = g) \/ (f # g /\ Serves(t, f))
<1>1. Serves(x, g)'
      BY InsertServes
<1>2. Serves(t, g)' => t = x
      BY <1>1, ServesAfter
<1>3. Serves(x, f)' => f = g
      BY <1>1, ServesAfter
<1>4. ~Serves(x, f)
      BY InsertFacts, ServesTypes
<1> QED BY <1>1, <1>2, <1>3, <1>4, InsertFrame

-----------------------------------------------------------------------------
(* The refinement                                                          *)

\* A session that is served before and after a step keeps its user.
LEMMA ServedOwnerKept ==
    ASSUME PromiseInv, [Next]_vars, PromiseInv', NEW f \in Token,
           NEW s \in Token, Serves(s, f), NEW t \in Token, Serves(t, f)'
    PROVE  OwnerOf(f)' = OwnerOf(f)
<1>1. Inv /\ f \in minted
      BY PromiseFacts, ServesTypes
<1>2. PICK u \in User : Owns(u, f)'
      BY ServesAfter
<1>3. Owns(u, f)
      BY <1>1, <1>2, OwnerStep DEF Inv
<1>4. OwnerOf(f) = u
      BY <1>1, <1>3, OwnerUnique DEF Inv
<1>5. OwnerOf(f)' = u
      BY <1>1, <1>2, AfterStep
<1> QED BY <1>4, <1>5

LEMMA SessionsServed ==
    PromiseInv =>
        /\ DOMAIN ServedSessions = {f \in Token : \E t \in Token : Serves(t, f)}
        /\ \A f \in DOMAIN ServedSessions : ServedSessions[f] = OwnerOf(f)
        /\ ServedSessions = [f \in DOMAIN ServedSessions |-> ServedSessions[f]]
        /\ Served = [t \in DOMAIN Served |-> Served[t]]
<1> SUFFICES ASSUME PromiseInv
             PROVE  DOMAIN ServedSessions = {f \in Token : \E t \in Token : Serves(t, f)}
    BY DEF ServedSessions, Served
<1>1. DOMAIN ServedSessions = {Served[t] : t \in DOMAIN Served}
      BY DEF ServedSessions
<1>2. \A t \in DOMAIN Served : t \in Token /\ Served[t] \in Token /\ Serves(t, Served[t])
      BY ServedIsServes, ServesTypes
<1>3. \A t, f \in Token : Serves(t, f) => t \in DOMAIN Served /\ Served[t] = f
      BY ServedIsServes
<1> QED BY <1>1, <1>2, <1>3

LEMMA SessionsServedAfter ==
    PromiseInv' =>
        /\ DOMAIN ServedSessions' = {f \in Token : \E t \in Token : Serves(t, f)'}
        /\ \A f \in DOMAIN ServedSessions' : ServedSessions'[f] = OwnerOf(f)'
        /\ ServedSessions' = [f \in DOMAIN ServedSessions' |-> ServedSessions'[f]]
        /\ Served' = [t \in DOMAIN Served' |-> Served'[t]]
<1>1. (PromiseInv =>
        /\ DOMAIN ServedSessions = {f \in Token : \E t \in Token : Serves(t, f)}
        /\ \A f \in DOMAIN ServedSessions : ServedSessions[f] = OwnerOf(f)
        /\ ServedSessions = [f \in DOMAIN ServedSessions |-> ServedSessions[f]]
        /\ Served = [t \in DOMAIN Served |-> Served[t]])'
      BY SessionsServed, PTL
<1> QED BY <1>1

\* The values of the mapping, where a session is served before and after.
LEMMA SessionKept ==
    ASSUME PromiseInv, [Next]_vars, PromiseInv',
           NEW f \in DOMAIN ServedSessions, f \in DOMAIN ServedSessions'
    PROVE  ServedSessions'[f] = ServedSessions[f]
BY SessionsServed, SessionsServedAfter, ServedOwnerKept

\* A step without an INSERT ends some sessions, or none, and leaves the others their token.
LEMMA EndStep ==
    ASSUME PromiseInv, [Next]_vars, PromiseInv', minted' = minted
    PROVE  \E S \in SUBSET DOMAIN ServedSessions : Promise!End(S)
<1> DEFINE S == DOMAIN ServedSessions \ DOMAIN ServedSessions'
<1>1. \A t, f \in Token : Serves(t, f)' => Serves(t, f)
      BY ServesShrinks
<1>2. DOMAIN ServedSessions' = DOMAIN ServedSessions \ S
      BY <1>1, SessionsServed, SessionsServedAfter
<1>3. ServedSessions' = [s \in DOMAIN ServedSessions \ S |-> ServedSessions[s]]
      BY <1>2, SessionsServedAfter, SessionKept
<1>4. ASSUME NEW t \in DOMAIN Served'
      PROVE  t \in DOMAIN Served /\ Served[t] \notin S /\ Served'[t] = Served[t]
  <2>1. PICK f \in Token : f = Served'[t] /\ t \in Token /\ Serves(t, f)'
        BY <1>4, ServesAfter
  <2>2. t \in DOMAIN Served /\ Served[t] = f
        BY <1>1, <2>1, ServedIsServes
  <2>3. f \in DOMAIN ServedSessions'
        BY <2>1, SessionsServedAfter
  <2> QED BY <2>1, <2>2, <2>3
<1>5. ASSUME NEW t \in DOMAIN Served, Served[t] \notin S PROVE t \in DOMAIN Served'
  <2>1. PICK f \in Token : f = Served[t] /\ t \in Token /\ Serves(t, f)
        BY <1>5, ServedIsServes, ServesTypes
  <2>2. f \in DOMAIN ServedSessions'
        BY <1>5, <2>1, SessionsServed
  <2>3. PICK x \in Token : Serves(x, f)'
        BY <2>2, SessionsServedAfter
  <2>4. x = t
        BY <1>1, <2>1, <2>3, TokenUnique
  <2> QED BY <2>1, <2>3, <2>4, ServesAfter
<1>6. Served' = [t \in {x \in DOMAIN Served : Served[x] \notin S} |-> Served[t]]
  <2>1. DOMAIN Served' = {x \in DOMAIN Served : Served[x] \notin S}
        BY <1>4, <1>5
  <2> QED BY <1>4, <2>1, SessionsServedAfter
<1>7. Promise!End(S)
      BY <1>3, <1>6 DEF Promise!End
<1> QED BY <1>7

\* The INSERT of a login opens a session with one token, that of a refresh puts its token
\* in the place of the one presented.
LEMMA TradeStep ==
    ASSUME PromiseInv, [Next]_vars, PromiseInv', NEW r \in Req, NEW x \in Token,
           StoreToken(r, x)
    PROVE  \/ \E u \in User : Promise!Open(u, x)
           \/ \E s \in DOMAIN ServedSessions : Promise!Rotate(s, x)
<1>1. /\ x \notin minted /\ minted' = minted \cup {x}
      /\ req[r].pc = "issue" /\ FamilyFor(r, x) \in Token
      BY InsertFacts
<1>2. PICK g \in Token : g = FamilyFor(r, x)
      BY <1>1
<1>3. \A t, f \in Token : Serves(t, f)' <=> (t = x /\ f = g) \/ (f # g /\ Serves(t, f))
      BY <1>2, ServesAfterInsert
<1>4. \A f \in Token : ~Serves(x, f)
      BY <1>1, ServesTypes
<1>5. DOMAIN ServedSessions' = DOMAIN ServedSessions \cup {g}
  <2>1. \A f \in Token : f # g =>
          ((\E t \in Token : Serves(t, f)') <=> \E t \in Token : Serves(t, f))
        BY <1>3
  <2>2. \E t \in Token : Serves(t, g)'
        BY <1>3
  <2> QED BY <2>1, <2>2, SessionsServed, SessionsServedAfter
<1>6. \A f \in DOMAIN ServedSessions : ServedSessions'[f] = ServedSessions[f]
      BY <1>5, SessionKept
<1>7. /\ DOMAIN Served' = {y \in DOMAIN Served : Served[y] # g} \cup {x}
      /\ x \notin DOMAIN Served /\ Served'[x] = g
      /\ \A y \in DOMAIN Served : Served[y] # g => Served'[y] = Served[y]
  <2>1. \A t \in DOMAIN Served : t \in Token /\ Served[t] \in Token /\ Serves(t, Served[t])
        BY ServedIsServes, ServesTypes
  <2>2. x \notin DOMAIN Served
        BY <1>4, <2>1
  <2>3. x \in DOMAIN Served' /\ Served'[x] = g
        BY <1>3, ServesAfter
  <2>4. ASSUME NEW y \in DOMAIN Served, Served[y] # g
        PROVE  y \in DOMAIN Served' /\ Served'[y] = Served[y]
    <3>1. Serves(y, Served[y]) /\ y \in Token /\ Served[y] \in Token
          BY <2>1
    <3>2. PICK f \in Token : f = Served[y] /\ Serves(y, f)'
          BY <1>3, <2>4, <3>1
    <3> QED BY <3>1, <3>2, ServesAfter
  <2>5. ASSUME NEW y \in DOMAIN Served', y # x PROVE y \in DOMAIN Served /\ Served[y] # g
    <3>1. PICK f \in Token : f = Served'[y] /\ y \in Token /\ Serves(y, f)'
          BY <2>5, ServesAfter
    <3>2. f # g /\ Serves(y, f)
          BY <1>3, <2>5, <3>1
    <3> QED BY <3>1, <3>2, ServedIsServes
  <2> QED BY <2>2, <2>3, <2>4, <2>5
<1>8. Served' = [y \in {z \in DOMAIN Served : Served[z] # g} \cup {x} |->
                    IF y = x THEN g ELSE Served[y]]
  <2>1. \A y \in DOMAIN Served' : Served'[y] = IF y = x THEN g ELSE Served[y]
        BY <1>7
  <2> QED BY <1>7, <2>1, SessionsServedAfter
<1>9. CASE req[r].family = None
  <2>1. g = x
        BY <1>2, <1>9 DEF FamilyFor
  <2>2. x \notin DOMAIN ServedSessions
        BY <1>1, SessionsServed, ServesTypes
  <2>3. {z \in DOMAIN Served : Served[z] # g} = DOMAIN Served
    <3>1. \A z \in DOMAIN Served : Served[z] \in minted
          BY ServedIsServes, ServesTypes
    <3> QED BY <1>1, <2>1, <3>1
  <2>4. PICK u \in User : u = req[r].user
        BY <1>1, PromiseFacts DEF TypeOK, Task, TaskOK
  <2>5. ServedSessions'[x] = u
    <3>1. x \in DOMAIN rt' /\ rt'[x].family = x /\ rt'[x].user = u
          BY <1>2, <2>1, <2>4, PromiseFacts, StoreEffect
    <3>2. Owns(u, x)'
          BY <3>1 DEF Owns
    <3>3. OwnerOf(x)' = u
          BY <3>2, PromiseFacts, AfterStep
    <3> QED BY <1>5, <2>1, <3>3, SessionsServedAfter
  <2>6. ServedSessions' = [f \in DOMAIN ServedSessions \cup {x} |->
                              IF f = x THEN u ELSE ServedSessions[f]]
    <3>1. \A f \in DOMAIN ServedSessions' :
            ServedSessions'[f] = IF f = x THEN u ELSE ServedSessions[f]
          BY <1>5, <1>6, <2>1, <2>5
    <3> QED BY <1>5, <2>1, <3>1, SessionsServedAfter
  <2>7. Promise!Open(u, x)
        BY <1>1, <1>8, <2>1, <2>3, <2>6 DEF Promise!Open
  <2> QED BY <2>7
<1>10. CASE req[r].family # None
  <2>1. g = req[r].family /\ Renewing(r, g)
        BY <1>1, <1>2, <1>10 DEF FamilyFor, Renewing
  <2>2. PICK t : t = req[r].token /\ t # None
        BY <1>10, PromiseFacts DEF TypeOK, TaskOK
  <2>3. Serves(t, g)
        BY <2>1, <2>2 DEF Serves
  <2>4. g \in DOMAIN ServedSessions
        BY <2>3, SessionsServed, ServesTypes
  <2>5. ServedSessions' = ServedSessions
    <3>1. DOMAIN ServedSessions' = DOMAIN ServedSessions
          BY <1>5, <2>4
    <3> QED BY <1>6, <3>1, SessionsServed, SessionsServedAfter
  <2>6. Promise!Rotate(g, x)
        BY <1>1, <1>8, <2>5 DEF Promise!Rotate
  <2> QED BY <2>4, <2>6
<1> QED BY <1>9, <1>10

\* README "Rotacion", "Reutilizacion" and the answer of change-password, for any number of
\* users, tokens and requests, and with failures and restarts: under the discipline a
\* session has exactly one token, which each refresh replaces, and it ends for good.
THEOREM SessionsKeepPromise == DisciplinedSpec => ImplementsPromise
<1>1. Init => Promise!LifeInit
  <2> SUFFICES ASSUME Init PROVE Promise!LifeInit
      OBVIOUS
  <2>1. DOMAIN Served = {}
    <3>1. AtRest = {}
          BY DEF Init, AtRest
    <3>2. \A q \in Req : \A f \in Token : ~Renewing(q, f)
          BY DEF Init, Renewing, Idle, Job
    <3> QED BY <3>1, <3>2 DEF Served, InHand
  <2>2. DOMAIN ServedSessions = {}
        BY <2>1 DEF ServedSessions
  <2>3. Served = [t \in {} |-> t] /\ ServedSessions = [s \in {} |-> s]
        BY <2>1, <2>2, InitPromiseInv, SessionsServed
  <2> QED BY <2>3 DEF Init, Promise!LifeInit
<1>2. PromiseInv /\ PromiseInv' /\ [Next]_vars => [Promise!PromiseNext]_Promise!lifeVars
  <2> SUFFICES ASSUME PromiseInv, PromiseInv', [Next]_vars PROVE Promise!PromiseNext
      BY DEF Promise!PromiseNext
  <2>1. CASE minted' = minted
        BY <2>1, EndStep DEF Promise!PromiseNext
  <2>2. CASE \E r \in Req, t \in Token : StoreToken(r, t)
        BY <2>2, TradeStep DEF Promise!PromiseNext
  <2> QED BY <2>1, <2>2, MintedStep
<1>3. PromiseInv /\ [Next /\ Alone' /\ RevocationsDone]_vars
        => PromiseInv' /\ [Promise!PromiseNext]_Promise!lifeVars
      BY <1>2, PromiseInvStep
<1> QED BY <1>1, <1>3, InitPromiseInv, PTL
        DEF DisciplinedSpec, ImplementsPromise, Promise!PromiseSpec

\* A client that waits for its answers gets what the README promises, as far as
\* revocations are carried out.
THEOREM WaitingClientsAreServed == UserSerialSpec => ImplementsPromise
BY WaitingClientsSuffice, SessionsKeepPromise, PTL
=============================================================================
