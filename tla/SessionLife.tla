---------------------------- MODULE SessionLife -----------------------------
(***************************************************************************)
(* What every session does, whatever runs at once and whatever fails: it   *)
(* is opened once, by a user who keeps it; while it is open its tokens     *)
(* come and go; and neither a session nor a token ever comes back.         *)
(*                                                                         *)
(* A session is named by its first token.                                  *)
(***************************************************************************)
CONSTANTS User, Token

VARIABLES
    issued,  \* the tokens that were ever handed out
    owner,   \* the open sessions, each with its user
    valid    \* the tokens that can be traded, each with its session

lifeVars == <<issued, owner, valid>>

LifeInit ==
    /\ issued = {}
    /\ owner = [s \in {} |-> s]
    /\ valid = [t \in {} |-> t]

\* A login.
Open(u, t) ==
    /\ t \notin issued
    /\ issued' = issued \cup {t}
    /\ owner' = [s \in DOMAIN owner \cup {t} |-> IF s = t THEN u ELSE owner[s]]
    /\ valid' = [x \in DOMAIN valid \cup {t} |-> IF x = t THEN t ELSE valid[x]]

\* A refresh gives an open session another token.
Renew(s, t) ==
    /\ t \notin issued
    /\ issued' = issued \cup {t}
    /\ valid' = [x \in DOMAIN valid \cup {t} |-> IF x = t THEN s ELSE valid[x]]
    /\ UNCHANGED owner

\* Only the tokens T and the sessions S live on.
Shrink(T, S) ==
    /\ \A t \in T : valid[t] \in S
    /\ valid' = [t \in T |-> valid[t]]
    /\ owner' = [s \in S |-> owner[s]]
    /\ UNCHANGED issued

LifeNext ==
    \/ \E u \in User, t \in Token : Open(u, t)
    \/ \E s \in DOMAIN owner, t \in Token : Renew(s, t)
    \/ \E T \in SUBSET DOMAIN valid, S \in SUBSET DOMAIN owner : Shrink(T, S)

LifeSpec == LifeInit /\ [][LifeNext]_lifeVars
=============================================================================
