------------------------------ MODULE MCRoles -------------------------------
(* Instances of Roles for TLC.                                             *)
EXTENDS Roles, TLC

CONSTANTS i1, p1, manageUsers, readUsersAll, readAllUsers

\* One permission stored by the seed, or none where permissions play no part.
MCSeedPerms == [p \in PermId \cap {p1} |-> manageUsers]

\* 'read' 'users:all' and 'read:users' 'all' are one scope.
MCText == [a \in Permission |-> IF a = readAllUsers THEN readUsersAll ELSE a]

\* A reachable state to start from: every user has registered and was made an admin.
Established ==
    /\ active = [u \in User |-> TRUE]
    /\ roles = [i \in {SeedRole} |-> Admin]
    /\ perms = SeedPerms
    /\ grants = {SeedRole} \X (DOMAIN SeedPerms)
    /\ userRoles = User \X {SeedRole}
    /\ spent = {SeedRole} \cup DOMAIN SeedPerms
    /\ req = [r \in Req |-> Idle]
    /\ overtaken = {}

EstablishedSpec == Established /\ [][Next]_vars

Symmetry == Permutations(Req) \cup Permutations(User) \cup Permutations(RoleId \ {i1})
=============================================================================
