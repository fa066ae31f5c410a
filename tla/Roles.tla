------------------------------- MODULE Roles --------------------------------
(***************************************************************************)
(* Role administration (internal/roles/service.go and handler.go) over the *)
(* tables of module RoleTables.                                            *)
(*                                                                         *)
(* Most operations are one SQL statement and one action.  The two that     *)
(* protect the last active admin, RevokeRoleFromUser and DeactivateUser,   *)
(* read, decide and write in separate statements with no transaction       *)
(* around them: they are split into one action per statement, and any      *)
(* other operation may run in between.  Who may call the operations is     *)
(* the business of the middleware, not of this module.                     *)
(***************************************************************************)
EXTENDS RoleTables

CONSTANTS
    Acceptable,  \* names and permissions that are neither empty nor too long
    Req,         \* slots for requests of several statements
    Faults,      \* may statements fail, requests be cut off, the process crash?
    None         \* no value

ASSUME ConstantsOK ==
    /\ Admin \in Acceptable
    /\ \A p \in DOMAIN SeedPerms : SeedPerms[p] \in Acceptable
    /\ Faults \in BOOLEAN
    /\ None \notin User \cup RoleId

VARIABLES
    req,        \* requests in flight
    overtaken   \* history: requests that counted an admin who has gone, or none

vars == <<active, roles, perms, grants, userRoles, spent, req, overtaken>>

\* The statement a request is about to run.
Step == {"idle", "count", "deleteUserRole", "listRoles", "deactivate"}

Task == [pc : Step, user : User \cup {None}, role : RoleId \cup {None}]

Job(pc, u, i) == [pc |-> pc, user |-> u, role |-> i]

Idle == Job("idle", None, None)

Goto(r, task) == req' = [req EXCEPT ![r] = task]

Advance(r, pc) == Goto(r, [req[r] EXCEPT !.pc = pc])

Init ==
    /\ Migrated
    /\ req = [r \in Req |-> Idle]
    /\ overtaken = {}

-----------------------------------------------------------------------------
(* Operations of one statement                                             *)

\* POST /auth/register
Register(u) == InsertUser(u) /\ UNCHANGED req

\* 400 when the name is empty or too long.
CreateRole(i, n) == n \in Acceptable /\ InsertRole(i, n) /\ UNCHANGED req

DeleteRole(i) == DeleteRoleRow(i) /\ UNCHANGED req

\* 400 when action or resource is empty or too long.
CreatePermission(p, a) == a \in Acceptable /\ InsertPermission(p, a) /\ UNCHANGED req

DeletePermission(p) == DeletePermissionRow(p) /\ UNCHANGED req

AssignPermissionToRole(i, p) == InsertGrant(i, p) /\ UNCHANGED req

RevokePermissionFromRole(i, p) == DeleteGrant(i, p) /\ UNCHANGED req

AssignRoleToUser(u, i) == InsertUserRole(u, i) /\ UNCHANGED req

ActivateUser(u) == SetActive(u, TRUE) /\ UNCHANGED req

-----------------------------------------------------------------------------
(* RevokeRoleFromUser: GetRoleByID, CountActiveAdmins, DELETE              *)

GetRoleByID(r, u, i) ==
    /\ req[r] = Idle /\ i \in DOMAIN roles
    /\ Goto(r, Job(IF roles[i] = Admin THEN "count" ELSE "deleteUserRole", u, i))
    /\ UNCHANGED tables

\* Mutant: the guard is off by one.
CountOffByOne(r) ==
    /\ req[r].pc = "count" /\ CountActiveAdmins > 0
    /\ Advance(r, "deleteUserRole")
    /\ UNCHANGED tables

CountForRevoke(r) ==
    /\ req[r].pc = "count" /\ CountActiveAdmins > 1
    /\ Advance(r, "deleteUserRole")
    /\ UNCHANGED tables

\* ErrLastAdmin, answered with 409.
RefuseRevoke(r) ==
    /\ req[r].pc = "count" /\ CountActiveAdmins <= 1
    /\ Goto(r, Idle)
    /\ UNCHANGED tables

DeleteUserRole(r) ==
    /\ req[r].pc = "deleteUserRole"
    /\ DeleteUserRoleRow(req[r].user, req[r].role)
    /\ Goto(r, Idle)

-----------------------------------------------------------------------------
(* DeactivateUser: CountActiveAdmins, perhaps ListUserRoles, UPDATE        *)

\* Mutant: the roles of the user are looked at only when there is no admin left.
CountBelowOne(r, u) ==
    /\ req[r] = Idle
    /\ Goto(r, Job(IF CountActiveAdmins < 1 THEN "listRoles" ELSE "deactivate", u, None))
    /\ UNCHANGED tables

CountForDeactivate(r, u) ==
    /\ req[r] = Idle
    /\ Goto(r, Job(IF CountActiveAdmins <= 1 THEN "listRoles" ELSE "deactivate", u, None))
    /\ UNCHANGED tables

HasAdminRole(u) == \E i \in ListUserRoles(u) : roles[i] = Admin

AllowDeactivate(r) ==
    /\ req[r].pc = "listRoles" /\ ~HasAdminRole(req[r].user)
    /\ Advance(r, "deactivate")
    /\ UNCHANGED tables

RefuseDeactivate(r) ==
    /\ req[r].pc = "listRoles" /\ HasAdminRole(req[r].user)
    /\ Goto(r, Idle)
    /\ UNCHANGED tables

DeactivateUser(r) ==
    /\ req[r].pc = "deactivate"
    /\ SetActive(req[r].user, FALSE)
    /\ Goto(r, Idle)

-----------------------------------------------------------------------------
(* Failures, and the next-state relation                                   *)

\* A statement fails or the 30 s context ends: the handler returns.
Fail(r) ==
    /\ Faults /\ req[r].pc # "idle"
    /\ Goto(r, Idle)
    /\ UNCHANGED tables

\* The process dies and restarts: the tables survive, the handlers do not.
Crash ==
    /\ Faults
    /\ req' = [r \in Req |-> Idle]
    /\ UNCHANGED tables

\* What a request in flight does next.
Continue(r) ==
    \/ CountForRevoke(r) \/ RefuseRevoke(r) \/ DeleteUserRole(r)
    \/ AllowDeactivate(r) \/ RefuseDeactivate(r) \/ DeactivateUser(r)
    \/ Fail(r)

\* The requests served by one statement.
Statement ==
    \/ \E u \in User : ActivateUser(u)
    \/ \E i \in RoleId, n \in Name : CreateRole(i, n)
    \/ \E i \in RoleId : DeleteRole(i)
    \/ \E p \in PermId, a \in Permission : CreatePermission(p, a)
    \/ \E p \in PermId : DeletePermission(p)
    \/ \E i \in RoleId, p \in PermId :
         AssignPermissionToRole(i, p) \/ RevokePermissionFromRole(i, p)
    \/ \E u \in User, i \in RoleId : AssignRoleToUser(u, i)

\* The first statement of the others.
Begin(r) ==
    \E u \in User : CountForDeactivate(r, u) \/ \E i \in RoleId : GetRoleByID(r, u, i)

Operation ==
    \/ \E u \in User : Register(u)
    \/ Statement
    \/ \E r \in Req : Begin(r) \/ Continue(r)
    \/ Crash

\* The requests that have counted the admins, or need not.
Counted == {"deleteUserRole", "listRoles", "deactivate"}

\* A request is overtaken when an active admin goes after it counted them, or when
\* there is none that it could spare.
Overtake ==
    overtaken' = {r \in Req :
        /\ req'[r].pc \in Counted
        /\ \/ r \in overtaken \/ AdminLinks' = {}
           \/ req[r].pc \in Counted /\ ~(AdminLinks \subseteq AdminLinks')}

Next == Operation /\ Overtake

Spec == Init /\ [][Next]_vars

-----------------------------------------------------------------------------
(* Properties                                                              *)

\* The tables respect their keys and hold nothing that validation refuses, and a
\* handler in flight knows its user and role.
TypeOK ==
    /\ TablesOK
    /\ \A i \in DOMAIN roles : roles[i] \in Acceptable
    /\ \A p \in DOMAIN perms : perms[p] \in Acceptable
    /\ spent \subseteq RoleId \cup PermId
    /\ req \in [Req -> Task] /\ overtaken \subseteq Req
    /\ \A r \in Req : /\ req[r].pc = "idle" => req[r] = Idle
                      /\ req[r].pc # "idle" => req[r].user # None
                      /\ req[r].pc \in {"count", "deleteUserRole"} => req[r].role # None

LastAdminLost == CountActiveAdmins > 0 /\ CountActiveAdmins' = 0

AdminRoleDeleted == \E i \in DOMAIN roles : roles[i] = Admin /\ i \notin DOMAIN roles'

Removal(r) == req[r].pc \in {"deleteUserRole", "deactivate"} /\ req'[r] = Idle

\* The guards of RevokeRoleFromUser and DeactivateUser (service.go:85-93, 109-123)
\* are right about the tables they read, whatever is added to the tables meanwhile: the
\* last active admin goes only when another admin went between the reads and the write
\* of the removal, when there was no admin to read, or with the role itself.
LastAdminGuarded ==
    [][LastAdminLost => AdminRoleDeleted \/ \E r \in overtaken : Removal(r)]_vars

OneRemovalAtATime ==
    \A r, s \in Req : req[r].pc \in Counted /\ req[s].pc \in Counted => r = s

AdminsSafe == CountActiveAdmins > 0 /\ overtaken = {}

\* While removals come one at a time and nobody deletes the role, the service never runs
\* out of active admins, and is never about to (service.go:85-93, 109-123).
AdminsRemain ==
    [][AdminsSafe /\ OneRemovalAtATime /\ ~AdminRoleDeleted => AdminsSafe']_vars

\* A user gains a permission only when a link is added for it or the user is activated:
\* a role or permission deleted and created again gives nothing to those who had it.
PowerNeedsGrant ==
    [][\A u \in DOMAIN active :
         \/ Effective(u)' \subseteq Effective(u)
         \/ \E l \in userRoles' \ userRoles : l[1] = u
         \/ \E g \in grants' \ grants : <<u, g[1]>> \in userRoles
         \/ active'[u] /\ ~active[u]]_vars

(* What the messages of the service say: false of concurrent requests and of *)
(* users who are not active.                                                 *)

\* "cannot remove the last active admin": no request for one user does.
LastAdminStays == [][LastAdminLost => AdminRoleDeleted]_vars

\* 409 "cannot remove the last active admin": when one is left, the user of the request is
\* that admin.
RefusedIsLastAdmin ==
    [][\A r \in Req : RefuseRevoke(r) /\ CountActiveAdmins = 1 =>
         /\ req[r].user \in DOMAIN active /\ active[req[r].user]
         /\ HasAdminRole(req[r].user)]_vars
=============================================================================
