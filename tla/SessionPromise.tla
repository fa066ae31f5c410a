--------------------------- MODULE SessionPromise ---------------------------
(***************************************************************************)
(* What the README of the service promises of a session: it has one token  *)
(* at a time, each use of which issues a new one and revokes the previous  *)
(* one; and it ends as a whole, for good, be it by a logout, by the reuse  *)
(* of a former token, or because the password is changed.                  *)
(***************************************************************************)
EXTENDS SessionLife

\* The new token takes the place of every other of the session.
Rotate(s, t) ==
    /\ t \notin issued
    /\ issued' = issued \cup {t}
    /\ valid' = [x \in {y \in DOMAIN valid : valid[y] # s} \cup {t} |->
                    IF x = t THEN s ELSE valid[x]]
    /\ UNCHANGED owner

\* The other sessions keep their tokens.
End(S) ==
    /\ owner' = [s \in DOMAIN owner \ S |-> owner[s]]
    /\ valid' = [t \in {x \in DOMAIN valid : valid[x] \notin S} |-> valid[t]]
    /\ UNCHANGED issued

PromiseNext ==
    \/ \E u \in User, t \in Token : Open(u, t)
    \/ \E s \in DOMAIN owner, t \in Token : Rotate(s, t)
    \/ \E S \in SUBSET DOMAIN owner : End(S)

PromiseSpec == LifeInit /\ [][PromiseNext]_lifeVars
=============================================================================
