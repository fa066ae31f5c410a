------------------------------ MODULE MCAccess ------------------------------
(* Instances of Access for TLC.                                            *)
EXTENDS Access, TLC

CONSTANTS i1, p1

\* The seed gives manage:roles to the admin role.
MCSeedPerms == [p \in {p1} |-> Manage]

MCText == [a \in Permission |-> a]

Symmetry == Permutations(User)
=============================================================================
