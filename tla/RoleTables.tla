----------------------------- MODULE RoleTables -----------------------------
(***************************************************************************)
(* The tables users, roles, permissions, role_permissions and user_roles   *)
(* (db/migrations), and the statements of db/queries/roles.sql and         *)
(* users.sql that read and write them.  A statement is atomic, and one     *)
(* that violates a key fails and changes nothing.                          *)
(***************************************************************************)
EXTENDS Integers, FiniteSets

CONSTANTS
    User,        \* users, who are never deleted
    RoleId,      \* ids gen_random_uuid can return (never twice the same)
    Name,        \* role names
    Admin,       \* the name "admin"
    PermId,      \* ids of permissions
    Permission,  \* pairs of an action and a resource
    Scope,       \* what a consumer of a token sees of a permission
    Text,        \* the scope of a permission: action || ':' || resource
    SeedRole,    \* id the seed migration gives the admin role
    SeedPerms    \* permissions the seed migration stores: id -> permission

ASSUME TableConstantsOK ==
    /\ Admin \in Name
    /\ SeedRole \in RoleId
    /\ Text \in [Permission -> Scope]     \* 'a' ':b' and 'a:' 'b' are one scope
    /\ DOMAIN SeedPerms \subseteq PermId
    /\ SeedPerms \in [DOMAIN SeedPerms -> Permission]
    /\ \A p, q \in DOMAIN SeedPerms : SeedPerms[p] = SeedPerms[q] => p = q
    /\ IsFiniteSet(User) /\ IsFiniteSet(RoleId)

VARIABLES
    active,     \* table users: user -> is_active
    roles,      \* table roles: id -> name
    perms,      \* table permissions: id -> action and resource
    grants,     \* table role_permissions: pairs of a role and a permission
    userRoles,  \* table user_roles: pairs of a user and a role
    spent       \* ids that were ever stored

tables == <<active, roles, perms, grants, userRoles, spent>>

\* The tables as the migrations leave them.
Migrated ==
    /\ active = [u \in {} |-> TRUE]
    /\ roles = [i \in {SeedRole} |-> Admin]
    /\ perms = SeedPerms
    /\ grants = {SeedRole} \X (DOMAIN SeedPerms)
    /\ userRoles = {}
    /\ spent = {SeedRole} \cup DOMAIN SeedPerms

-----------------------------------------------------------------------------
(* Queries                                                                 *)

\* The rows of the join that CountActiveAdmins counts.
AdminLinks == {l \in userRoles : active[l[1]] /\ roles[l[2]] = Admin}

\* COUNT(*) counts the rows, not the users.
CountActiveAdmins == Cardinality(AdminLinks)

ListUserRoles(u) == {i \in DOMAIN roles : <<u, i>> \in userRoles}

\* GetUserPermissions: what a login would write into the access token.
Effective(u) ==
    IF u \notin DOMAIN active \/ ~active[u] THEN {}
    ELSE {Text[perms[g[2]]] : g \in {h \in grants : <<u, h[1]>> \in userRoles}}

-----------------------------------------------------------------------------
(* Statements                                                              *)

\* Users are active from the start.
InsertUser(u) ==
    /\ u \notin DOMAIN active
    /\ active' = [v \in DOMAIN active \cup {u} |-> v = u \/ active[v]]
    /\ UNCHANGED <<roles, perms, grants, userRoles, spent>>

\* An UPDATE of a user who does not exist changes nothing.
SetActive(u, value) ==
    /\ active' = [v \in DOMAIN active |-> IF v = u THEN value ELSE active[v]]
    /\ UNCHANGED <<roles, perms, grants, userRoles, spent>>

InsertRole(i, n) ==
    /\ i \in RoleId \ spent
    /\ \A j \in DOMAIN roles : roles[j] # n     \* UNIQUE (name)
    /\ roles' = [j \in DOMAIN roles \cup {i} |-> IF j = i THEN n ELSE roles[j]]
    /\ spent' = spent \cup {i}
    /\ UNCHANGED <<active, perms, grants, userRoles>>

\* Mutant: role_permissions without ON DELETE CASCADE.
DeleteRoleDangling(i) ==
    /\ roles' = [j \in DOMAIN roles \ {i} |-> roles[j]]
    /\ userRoles' = {l \in userRoles : l[2] # i}
    /\ UNCHANGED <<active, perms, grants, spent>>

\* Both link tables refer to the role with ON DELETE CASCADE.
DeleteRoleRow(i) ==
    /\ roles' = [j \in DOMAIN roles \ {i} |-> roles[j]]
    /\ grants' = {g \in grants : g[1] # i}
    /\ userRoles' = {l \in userRoles : l[2] # i}
    /\ UNCHANGED <<active, perms, spent>>

\* Mutant: an INSERT that overwrites the permission of the row with that id.
UpsertPermission(p, a) ==
    /\ \A q \in DOMAIN perms : perms[q] # a
    /\ perms' = [q \in DOMAIN perms \cup {p} |-> IF q = p THEN a ELSE perms[q]]
    /\ spent' = spent \cup {p}
    /\ UNCHANGED <<active, roles, grants, userRoles>>

InsertPermission(p, a) ==
    /\ p \in PermId \ spent
    /\ \A q \in DOMAIN perms : perms[q] # a     \* UNIQUE (action, resource)
    /\ perms' = [q \in DOMAIN perms \cup {p} |-> IF q = p THEN a ELSE perms[q]]
    /\ spent' = spent \cup {p}
    /\ UNCHANGED <<active, roles, grants, userRoles>>

DeletePermissionRow(p) ==
    /\ perms' = [q \in DOMAIN perms \ {p} |-> perms[q]]
    /\ grants' = {g \in grants : g[2] # p}
    /\ UNCHANGED <<active, roles, userRoles, spent>>

\* A link to a row that does not exist violates the foreign key; a link that exists
\* already is left alone (ON CONFLICT DO NOTHING).
InsertGrant(i, p) ==
    /\ i \in DOMAIN roles /\ p \in DOMAIN perms
    /\ grants' = grants \cup {<<i, p>>}
    /\ UNCHANGED <<active, roles, perms, userRoles, spent>>

DeleteGrant(i, p) ==
    /\ grants' = grants \ {<<i, p>>}
    /\ UNCHANGED <<active, roles, perms, userRoles, spent>>

InsertUserRole(u, i) ==
    /\ u \in DOMAIN active /\ i \in DOMAIN roles
    /\ userRoles' = userRoles \cup {<<u, i>>}
    /\ UNCHANGED <<active, roles, perms, grants, spent>>

DeleteUserRoleRow(u, i) ==
    /\ userRoles' = userRoles \ {<<u, i>>}
    /\ UNCHANGED <<active, roles, perms, grants, spent>>

-----------------------------------------------------------------------------

\* The tables respect their keys: no link to a row that is gone, no two roles of one
\* name, no two permissions of one action and resource.
TablesOK ==
    /\ DOMAIN active \subseteq User /\ active \in [DOMAIN active -> BOOLEAN]
    /\ DOMAIN roles \subseteq RoleId /\ roles \in [DOMAIN roles -> Name]
    /\ DOMAIN perms \subseteq PermId /\ perms \in [DOMAIN perms -> Permission]
    /\ \A i, j \in DOMAIN roles : roles[i] = roles[j] => i = j
    /\ \A p, q \in DOMAIN perms : perms[p] = perms[q] => p = q
    /\ grants \subseteq (DOMAIN roles) \X (DOMAIN perms)
    /\ userRoles \subseteq (DOMAIN active) \X (DOMAIN roles)
    /\ DOMAIN roles \cup DOMAIN perms \subseteq spent
=============================================================================
