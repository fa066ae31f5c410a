------------------------- MODULE SessionsRefinement -------------------------
(* Sessions implements SessionLife, for every value of the constants.      *)
EXTENDS SessionsProofs

\* What the rest needs of the invariants proved in SessionsProofs.
Inv == TypeOK /\ FamilyHasOneUser

LEMMA Invariance == Spec => []Inv
BY TypeCorrect, FamiliesHaveOneUser, PTL DEF Inv

LEMMA InvStep == Inv /\ [Next]_vars => Inv'
BY StepType, StepFamily DEF Inv

\* An owner of a family is the owner.
LEMMA OwnerUnique ==
    FamilyHasOneUser => \A f \in Token : \A u \in User : Owns(u, f) => OwnerOf(f) = u
BY DEF OwnerOf, FamilyHasOneUser

\* An open session has one.
LEMMA OpenOwned ==
    TypeOK => \A f \in OpenFamilies : f \in Token /\ \E u \in User : Owns(u, f)
<1> SUFFICES ASSUME TypeOK, NEW f \in OpenFamilies
             PROVE  f \in Token /\ \E u \in User : Owns(u, f)
    OBVIOUS
<1>1. f \in minted /\ f \in Token /\ ~DeadFamily(f)
      BY DEF OpenFamilies, TypeOK
<1>2. CASE \E t \in DOMAIN rt : rt[t].family = f /\ ~rt[t].revoked
  <2>1. PICK t \in DOMAIN rt : rt[t].family = f
        BY <1>2
  <2>2. rt[t].user \in User
        BY DEF TypeOK
  <2> QED BY <1>1, <2>1, <2>2 DEF Owns
<1>3. CASE \E r \in Req : Renewing(r, f)
  <2>1. PICK r \in Req : Renewing(r, f)
        BY <1>3
  <2>2. req[r] \in Task /\ TaskOK(req[r])
        BY DEF TypeOK
  <2>3. req[r].user \in User
        BY <2>1, <2>2 DEF Renewing, Task, TaskOK
  <2> QED BY <1>1, <2>1, <2>3 DEF Owns
<1> QED BY <1>1, <1>2, <1>3 DEF DeadFamily

\* The session of a live token is open.
LEMMA LiveIsOpen ==
    TypeOK => \A t \in DOMAIN LiveTokens : LiveTokens[t] \in OpenFamilies
BY DEF TypeOK, OpenFamilies, DeadFamily, Live, LiveTokens

\* The same facts after a step.
LEMMA AfterStep ==
    ASSUME Inv, [Next]_vars
    PROVE  /\ \A f \in Token : \A u \in User : Owns(u, f)' => OwnerOf(f)' = u
           /\ \A f \in OpenFamilies' : f \in Token /\ \E u \in User : Owns(u, f)'
           /\ \A t \in DOMAIN LiveTokens' : LiveTokens'[t] \in OpenFamilies'
<1>1. FamilyHasOneUser' =>
        (\A f \in Token : \A u \in User : Owns(u, f) => OwnerOf(f) = u)'
      BY OwnerUnique, PTL
<1>2. TypeOK' => (\A f \in OpenFamilies : f \in Token /\ \E u \in User : Owns(u, f))'
      BY OpenOwned, PTL
<1>3. TypeOK' => (\A t \in DOMAIN LiveTokens : LiveTokens[t] \in OpenFamilies)'
      BY LiveIsOpen, PTL
<1> QED BY <1>1, <1>2, <1>3, InvStep DEF Inv

\* A step changes the owner of no session that stays open.
LEMMA OwnerKept ==
    ASSUME Inv, [Next]_vars, NEW f \in OpenFamilies, f \in OpenFamilies'
    PROVE  OwnerOf(f)' = OwnerOf(f)
<1>1. PICK u \in User : Owns(u, f)'
      BY AfterStep
<1>2. Owns(u, f) /\ f \in Token
      BY <1>1, OwnerStep, OpenOwned DEF Inv, OpenFamilies
<1>3. OwnerOf(f) = u
      BY <1>2, OwnerUnique DEF Inv
<1>4. OwnerOf(f)' = u
      BY <1>1, <1>2, AfterStep
<1> QED BY <1>3, <1>4

\* A row keeps its family as long as it exists.
LEMMA FamilyKept ==
    ASSUME Inv, [Next]_vars, NEW t \in DOMAIN rt, t \in DOMAIN rt'
    PROVE  rt'[t].family = rt[t].family
<1>1. CASE \E S : Revoke(S)
      BY <1>1, RevokeEffect DEF Inv, TypeOK
<1>2. CASE \E r \in Req, x \in Token : StoreToken(r, x)
      BY <1>2, StoreEffect DEF Inv
<1>3. CASE DeleteExpiredTokens
      BY <1>3 DEF DeleteExpiredTokens
<1> QED BY <1>1, <1>2, <1>3, RowStep

\* A step without an INSERT revives no token and opens no session.
LEMMA NothingReturns ==
    ASSUME Inv, [Next]_vars, minted' = minted
    PROVE  /\ DOMAIN LiveTokens' \subseteq DOMAIN LiveTokens
           /\ OpenFamilies' \subseteq OpenFamilies
<1>1. ASSUME NEW t \in DOMAIN rt', Live(t)' PROVE t \in DOMAIN rt /\ Live(t)
  <2>1. t \in minted
        BY InvStep DEF Inv, TypeOK
  <2>2. Live(t)
        BY <1>1, <2>1, TokenStaysDead DEF Inv
  <2> QED BY <2>2 DEF Live
<1>2. ASSUME NEW f \in OpenFamilies' PROVE f \in OpenFamilies
  <2>1. f \in minted /\ f \in Token /\ ~DeadFamily(f)'
        BY DEF OpenFamilies, Inv, TypeOK
  <2>2. ~DeadFamily(f)
    <3> SUFFICES ASSUME DeadFamily(f) PROVE DeadFamily(f)'
        BY <2>1
    <3>1. \A q \in Req : ~Renewing(q, f)'
          BY <2>1, NoneRenews DEF Inv
    <3>2. \A t \in DOMAIN rt' : rt'[t].family = f => rt'[t].revoked
          BY <2>1, NoLiveRow DEF Inv
    <3> QED BY <2>1, <3>1, <3>2 DEF DeadFamily
  <2> QED BY <2>1, <2>2 DEF OpenFamilies
<1> QED BY <1>1, <1>2 DEF LiveTokens

\* Such a step ends some sessions and revokes some tokens, or none.
LEMMA ShrinkStep ==
    ASSUME Inv, [Next]_vars, minted' = minted
    PROVE  \E T \in SUBSET DOMAIN LiveTokens, S \in SUBSET DOMAIN OpenSessions :
             Life!Shrink(T, S)
<1> DEFINE T == DOMAIN LiveTokens'
           S == OpenFamilies'
<1>1. T \subseteq DOMAIN LiveTokens /\ S \subseteq DOMAIN OpenSessions
      BY NothingReturns DEF OpenSessions
<1>2. \A t \in T : LiveTokens'[t] = LiveTokens[t]
      BY <1>1, FamilyKept DEF LiveTokens
<1>3. \A t \in T : LiveTokens[t] \in S
  <2>1. \A t \in T : LiveTokens'[t] \in S
        BY AfterStep
  <2> QED BY <1>2, <2>1
<1>4. LiveTokens' = [t \in T |-> LiveTokens[t]]
      BY <1>2 DEF LiveTokens
<1>5. OpenSessions' = [f \in S |-> OpenSessions[f]]
      BY <1>1, OwnerKept DEF OpenSessions
<1>6. Life!Shrink(T, S)
      BY <1>3, <1>4, <1>5 DEF Life!Shrink
<1> QED BY <1>1, <1>6

\* An INSERT adds one live token, and opens a session if it belongs to none.
LEMMA InsertTokens ==
    ASSUME Inv, NEW r \in Req, NEW t \in Token, StoreToken(r, t)
    PROVE  /\ DOMAIN LiveTokens' = DOMAIN LiveTokens \cup {t} /\ t \notin DOMAIN LiveTokens
           /\ \A x \in DOMAIN LiveTokens : LiveTokens'[x] = LiveTokens[x]
           /\ LiveTokens'[t] = FamilyFor(r, t)
<1>1. /\ t \notin DOMAIN rt /\ DOMAIN rt' = DOMAIN rt \cup {t}
      /\ \A x \in DOMAIN rt : rt'[x] = rt[x]
      /\ ~rt'[t].revoked /\ rt'[t].family = FamilyFor(r, t)
      BY StoreEffect DEF Inv
<1>2. \A x : Live(x)' <=> Live(x) \/ x = t
      BY <1>1 DEF Live
<1> QED BY <1>1, <1>2 DEF LiveTokens

LEMMA InsertSessions ==
    ASSUME Inv, NEW r \in Req, NEW t \in Token, StoreToken(r, t)
    PROVE  OpenFamilies' = OpenFamilies \cup {FamilyFor(r, t)}
<1> DEFINE g == FamilyFor(r, t)
<1>1. /\ t \notin minted /\ t \notin DOMAIN rt /\ DOMAIN rt' = DOMAIN rt \cup {t}
      /\ \A x \in DOMAIN rt : rt'[x] = rt[x]
      /\ ~rt'[t].revoked /\ rt'[t].family = g
      BY StoreEffect DEF Inv
<1>2. minted' = minted \cup {t} /\ minted \subseteq Token
      BY DEF StoreToken, Inv, TypeOK
<1>3. \A q \in Req : req'[q] = IF q = r THEN Idle ELSE req[q]
      BY GotoCases DEF StoreToken, Inv
<1>4. req[r] \in Task /\ RefersOK(req[r])
      BY DEF Inv, TypeOK
<1>5. g \in minted'
      BY <1>2, <1>4 DEF FamilyFor, RefersOK
<1>6. \A f \in Token : f # g => \A q \in Req : Renewing(q, f)' <=> Renewing(q, f)
  <2> SUFFICES ASSUME NEW f \in Token, f # g, NEW q \in Req
               PROVE  Renewing(q, f)' <=> Renewing(q, f)
      OBVIOUS
  <2>1. CASE q # r
        BY <1>3, <2>1 DEF Renewing
  <2>2. CASE q = r
    <3>1. req[r].family # f
          BY ConstantsOK DEF FamilyFor
    <3>2. ~Renewing(q, f)'
          BY <1>3, <2>2 DEF Renewing, Idle, Job
    <3> QED BY <2>2, <3>1, <3>2 DEF Renewing
  <2> QED BY <2>1, <2>2
<1>7. ASSUME NEW f \in OpenFamilies', f # g PROVE f \in OpenFamilies
  <2>1. f \in Token /\ f \in minted' /\ ~DeadFamily(f)'
        BY <1>2 DEF OpenFamilies
  <2>2. \/ \E x \in DOMAIN rt' : rt'[x].family = f /\ ~rt'[x].revoked
        \/ \E q \in Req : Renewing(q, f)'
        BY <2>1 DEF DeadFamily
  <2>3. CASE \E x \in DOMAIN rt' : rt'[x].family = f /\ ~rt'[x].revoked
    <3>1. PICK x \in DOMAIN rt : rt[x].family = f /\ ~rt[x].revoked
          BY <1>1, <1>7, <2>3
    <3>2. f \in minted
          BY <3>1 DEF Inv, TypeOK
    <3> QED BY <3>1, <3>2 DEF OpenFamilies, DeadFamily
  <2>4. CASE \E q \in Req : Renewing(q, f)'
    <3>1. PICK q \in Req : Renewing(q, f)
          BY <1>6, <1>7, <2>1, <2>4
    <3>2. f \in minted
          BY <2>1, <3>1, ConstantsOK DEF Inv, TypeOK, RefersOK, Renewing
    <3> QED BY <3>1, <3>2 DEF OpenFamilies, DeadFamily
  <2> QED BY <2>2, <2>3, <2>4
<1>8. ASSUME NEW f \in OpenFamilies, f # g PROVE f \in OpenFamilies'
  <2>1. f \in Token /\ f \in minted /\ ~DeadFamily(f)
        BY <1>2 DEF OpenFamilies
  <2>2. \/ \E x \in DOMAIN rt : rt[x].family = f /\ ~rt[x].revoked
        \/ \E q \in Req : Renewing(q, f)
        BY <2>1 DEF DeadFamily
  <2>3. \/ \E x \in DOMAIN rt' : rt'[x].family = f /\ ~rt'[x].revoked
        \/ \E q \in Req : Renewing(q, f)'
        BY <1>1, <1>6, <1>8, <2>1, <2>2
  <2> QED BY <1>2, <2>1, <2>3 DEF OpenFamilies, DeadFamily
<1>9. g \in OpenFamilies'
      BY <1>1, <1>5 DEF OpenFamilies, DeadFamily
<1> QED BY <1>7, <1>8, <1>9

LEMMA InsertStep ==
    ASSUME Inv, [Next]_vars, NEW r \in Req, NEW t \in Token, StoreToken(r, t)
    PROVE  \/ \E u \in User : Life!Open(u, t)
           \/ \E s \in DOMAIN OpenSessions : Life!Renew(s, t)
<1>1. t \notin minted /\ minted' = minted \cup {t}
      BY DEF StoreToken
<1>2. req[r] \in Task /\ TaskOK(req[r]) /\ RefersOK(req[r]) /\ req[r].pc = "issue"
      BY DEF StoreToken, Inv, TypeOK
<1>3. LiveTokens' = [x \in DOMAIN LiveTokens \cup {t} |->
                        IF x = t THEN FamilyFor(r, t) ELSE LiveTokens[x]]
  <2>1. LiveTokens' = [x \in DOMAIN LiveTokens' |-> LiveTokens'[x]]
        BY DEF LiveTokens
  <2> QED BY <2>1, InsertTokens
<1>4. OpenSessions' = [f \in OpenFamilies' |-> OwnerOf(f)']
      BY DEF OpenSessions
<1>5. \A f \in OpenFamilies : OwnerOf(f)' = OpenSessions[f]
      BY InsertSessions, OwnerKept DEF OpenSessions
<1>6. CASE req[r].family = None
  <2>1. FamilyFor(r, t) = t /\ t \notin OpenFamilies
        BY <1>1, <1>6 DEF FamilyFor, OpenFamilies
  <2>2. PICK u \in User : u = req[r].user
        BY <1>2 DEF Task, TaskOK
  <2>3. Owns(u, t)'
    <3>1. t \in DOMAIN rt' /\ rt'[t].family = t /\ rt'[t].user = u
          BY <2>1, <2>2, StoreEffect DEF Inv
    <3> QED BY <3>1 DEF Owns
  <2>4. OwnerOf(t)' = u
        BY <2>3, AfterStep
  <2>5. OpenSessions' = [f \in DOMAIN OpenSessions \cup {t} |->
                            IF f = t THEN u ELSE OpenSessions[f]]
        BY <1>4, <1>5, <2>1, <2>4, InsertSessions DEF OpenSessions
  <2>6. Life!Open(u, t)
        BY <1>1, <1>3, <2>1, <2>5 DEF Life!Open
  <2> QED BY <2>6
<1>7. CASE req[r].family # None
  <2>1. FamilyFor(r, t) = req[r].family /\ Renewing(r, req[r].family)
        BY <1>2, <1>7 DEF FamilyFor, Renewing
  <2>2. req[r].family \in OpenFamilies
        BY <1>2, <1>7, <2>1 DEF RefersOK, OpenFamilies, DeadFamily
  <2>3. OpenSessions' = OpenSessions
        BY <1>4, <1>5, <2>1, <2>2, InsertSessions DEF OpenSessions
  <2>4. Life!Renew(req[r].family, t)
        BY <1>1, <1>3, <2>1, <2>3 DEF Life!Renew
  <2> QED BY <2>2, <2>4 DEF OpenSessions
<1> QED BY <1>6, <1>7

\* Sessions and tokens never come back and a session keeps its user: the authentication
\* service implements the abstract life of a session, for any number of users, tokens
\* and concurrent requests, and whatever fails.
THEOREM SessionsImplementLife == Spec => ImplementsLife
<1>1. Init => Life!LifeInit
  <2>1. Init => OpenFamilies = {} /\ {x \in DOMAIN rt : Live(x)} = {} /\ minted = {}
        BY DEF Init, OpenFamilies, Live
  <2> QED BY <2>1 DEF OpenSessions, LiveTokens, Life!LifeInit
<1>2. Inv /\ [Next]_vars => [Life!LifeNext]_Life!lifeVars
  <2> SUFFICES ASSUME Inv, [Next]_vars PROVE Life!LifeNext
      BY DEF Life!LifeNext
  <2>1. CASE minted' = minted
        BY <2>1, ShrinkStep DEF Life!LifeNext
  <2>2. CASE \E r \in Req, t \in Token : StoreToken(r, t)
        BY <2>2, InsertStep DEF Life!LifeNext
  <2> QED BY <2>1, <2>2, MintedStep
<1> QED BY <1>1, <1>2, Invariance, PTL DEF Spec, ImplementsLife, Life!LifeSpec
=============================================================================
