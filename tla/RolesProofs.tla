---------------------------- MODULE RolesProofs -----------------------------
(***************************************************************************)
(* Proofs about module Roles, for any users, roles, permissions and number *)
(* of concurrent requests.                                                 *)
(***************************************************************************)
EXTENDS Roles, FiniteSetTheorems, TLAPS

\* TypeOK in two halves: the tables, and the handlers.
DataOK ==
    /\ TablesOK
    /\ \A i \in DOMAIN roles : roles[i] \in Acceptable
    /\ \A p \in DOMAIN perms : perms[p] \in Acceptable
    /\ spent \subseteq RoleId \cup PermId

TasksOK ==
    /\ req \in [Req -> Task]
    /\ \A r \in Req : /\ req[r].pc = "idle" => req[r] = Idle
                      /\ req[r].pc # "idle" => req[r].user # None
                      /\ req[r].pc \in {"count", "deleteUserRole"} => req[r].role # None

\* What an operation does to the tables, whoever asked for it.
Effect ==
    \/ UNCHANGED tables
    \/ \E u \in User : InsertUser(u)
    \/ \E u \in User \cup {None}, value \in BOOLEAN : SetActive(u, value)
    \/ \E i \in RoleId, n \in Name : n \in Acceptable /\ InsertRole(i, n)
    \/ \E i \in RoleId : DeleteRoleRow(i)
    \/ \E p \in PermId, a \in Permission : a \in Acceptable /\ InsertPermission(p, a)
    \/ \E p \in PermId : DeletePermissionRow(p)
    \/ \E i \in RoleId, p \in PermId : InsertGrant(i, p) \/ DeleteGrant(i, p)
    \/ \E u \in User, i \in RoleId : InsertUserRole(u, i)
    \/ \E u, i : DeleteUserRoleRow(u, i)

LEMMA Effects ==
    ASSUME TasksOK, Operation
    PROVE  Effect
<1>1. CASE \E u \in User : Register(u)
  BY <1>1 DEF Register, Effect
<1>2. CASE Statement
  BY <1>2 DEF Statement, Effect, ActivateUser, CreateRole, DeleteRole, CreatePermission,
              DeletePermission, AssignPermissionToRole, RevokePermissionFromRole, AssignRoleToUser
<1>3. CASE \E r \in Req : Begin(r)
  BY <1>3 DEF Begin, CountForDeactivate, GetRoleByID, Effect
<1>4. CASE \E r \in Req : Continue(r)
  <2>1. PICK r \in Req : Continue(r)
    BY <1>4
  <2>2. req[r].user \in User \cup {None}
    BY DEF TasksOK, Task
  <2>3. CASE DeactivateUser(r)
    BY <2>2, <2>3 DEF DeactivateUser, Effect
  <2>4. CASE DeleteUserRole(r)
    BY <2>4 DEF DeleteUserRole, Effect
  <2> QED
    BY <2>1, <2>3, <2>4
    DEF Continue, CountForRevoke, RefuseRevoke, AllowDeactivate, RefuseDeactivate, Fail, Effect
<1>5. CASE Crash
  BY <1>5 DEF Crash, Effect
<1> QED
  BY <1>1, <1>2, <1>3, <1>4, <1>5 DEF Operation

-----------------------------------------------------------------------------
(* Types and keys                                                          *)

LEMMA DataKept ==
    ASSUME DataOK, Effect
    PROVE  DataOK'
<1> USE DEF DataOK, TablesOK
<1>1. CASE UNCHANGED tables
  BY <1>1 DEF tables
<1>2. ASSUME NEW u \in User, InsertUser(u)
      PROVE  DataOK'
  <2>1. /\ DOMAIN active' = DOMAIN active \cup {u} /\ active' \in [DOMAIN active' -> BOOLEAN]
        /\ roles' = roles /\ perms' = perms /\ grants' = grants /\ userRoles' = userRoles
        /\ spent' = spent
    BY <1>2 DEF InsertUser
  <2>2. userRoles' \subseteq (DOMAIN active') \X (DOMAIN roles')
    BY <2>1
  <2> QED
    BY <2>1, <2>2
<1>3. ASSUME NEW u \in User \cup {None}, NEW value \in BOOLEAN, SetActive(u, value)
      PROVE  DataOK'
  <2>1. /\ DOMAIN active' = DOMAIN active /\ active' \in [DOMAIN active' -> BOOLEAN]
        /\ roles' = roles /\ perms' = perms /\ grants' = grants /\ userRoles' = userRoles
        /\ spent' = spent
    BY <1>3 DEF SetActive
  <2> QED
    BY <2>1
<1>4. ASSUME NEW i \in RoleId, NEW n \in Name, n \in Acceptable, InsertRole(i, n)
      PROVE  DataOK'
  <2>1. /\ DOMAIN roles' = DOMAIN roles \cup {i} /\ roles' \in [DOMAIN roles' -> Name]
        /\ \A j \in DOMAIN roles' : roles'[j] = IF j = i THEN n ELSE roles[j]
        /\ \A j \in DOMAIN roles : roles[j] # n
        /\ active' = active /\ perms' = perms /\ grants' = grants /\ userRoles' = userRoles
        /\ spent' = spent \cup {i}
    BY <1>4 DEF InsertRole
  <2>2. /\ userRoles' \subseteq (DOMAIN active') \X (DOMAIN roles')
        /\ grants' \subseteq (DOMAIN roles') \X (DOMAIN perms')
    BY <2>1
  <2>3. \A j, k \in DOMAIN roles' : roles'[j] = roles'[k] => j = k
    BY <2>1
  <2> QED
    BY <1>4, <2>1, <2>2, <2>3
<1>5. ASSUME NEW i \in RoleId, DeleteRoleRow(i)
      PROVE  DataOK'
  <2>1. /\ DOMAIN roles' = DOMAIN roles \ {i} /\ roles' \in [DOMAIN roles' -> Name]
        /\ \A j \in DOMAIN roles' : roles'[j] = roles[j]
        /\ active' = active /\ perms' = perms /\ spent' = spent
        /\ grants' = {g \in grants : g[1] # i} /\ userRoles' = {l \in userRoles : l[2] # i}
    BY <1>5 DEF DeleteRoleRow
  <2>2. /\ userRoles' \subseteq (DOMAIN active') \X (DOMAIN roles')
        /\ grants' \subseteq (DOMAIN roles') \X (DOMAIN perms')
    BY <2>1
  <2> QED
    BY <2>1, <2>2
<1>6. ASSUME NEW p \in PermId, NEW a \in Permission, a \in Acceptable, InsertPermission(p, a)
      PROVE  DataOK'
  <2>1. /\ DOMAIN perms' = DOMAIN perms \cup {p} /\ perms' \in [DOMAIN perms' -> Permission]
        /\ \A q \in DOMAIN perms' : perms'[q] = IF q = p THEN a ELSE perms[q]
        /\ \A q \in DOMAIN perms : perms[q] # a
        /\ active' = active /\ roles' = roles /\ grants' = grants /\ userRoles' = userRoles
        /\ spent' = spent \cup {p}
    BY <1>6 DEF InsertPermission
  <2>2. grants' \subseteq (DOMAIN roles') \X (DOMAIN perms')
    BY <2>1
  <2>3. \A q, s \in DOMAIN perms' : perms'[q] = perms'[s] => q = s
    BY <2>1
  <2> QED
    BY <1>6, <2>1, <2>2, <2>3
<1>7. ASSUME NEW p \in PermId, DeletePermissionRow(p)
      PROVE  DataOK'
  <2>1. /\ DOMAIN perms' = DOMAIN perms \ {p} /\ perms' \in [DOMAIN perms' -> Permission]
        /\ \A q \in DOMAIN perms' : perms'[q] = perms[q]
        /\ active' = active /\ roles' = roles /\ userRoles' = userRoles /\ spent' = spent
        /\ grants' = {g \in grants : g[2] # p}
    BY <1>7 DEF DeletePermissionRow
  <2>2. grants' \subseteq (DOMAIN roles') \X (DOMAIN perms')
    BY <2>1
  <2> QED
    BY <2>1, <2>2
<1>8. ASSUME NEW i \in RoleId, NEW p \in PermId, InsertGrant(i, p) \/ DeleteGrant(i, p)
      PROVE  DataOK'
  BY <1>8 DEF InsertGrant, DeleteGrant
<1>9. ASSUME NEW u \in User, NEW i \in RoleId, InsertUserRole(u, i)
      PROVE  DataOK'
  BY <1>9 DEF InsertUserRole
<1>10. ASSUME NEW u, NEW i, DeleteUserRoleRow(u, i)
       PROVE  DataOK'
  BY <1>10 DEF DeleteUserRoleRow
<1> QED
  BY <1>1, <1>2, <1>3, <1>4, <1>5, <1>6, <1>7, <1>8, <1>9, <1>10 DEF Effect

LEMMA TaskFacts ==
    /\ Idle \in Task /\ Idle.pc = "idle"
    /\ \A pc \in Step, u \in User \cup {None}, i \in RoleId \cup {None} :
         /\ Job(pc, u, i) \in Task
         /\ Job(pc, u, i).pc = pc /\ Job(pc, u, i).user = u /\ Job(pc, u, i).role = i
    /\ \A t \in Task, pc \in Step :
         /\ [t EXCEPT !.pc = pc] \in Task
         /\ [t EXCEPT !.pc = pc].pc = pc
         /\ [t EXCEPT !.pc = pc].user = t.user /\ [t EXCEPT !.pc = pc].role = t.role
BY DEF Idle, Job, Task, Step

\* A handler starts, goes on to its next statement, or is done.
LEMMA Moves ==
    ASSUME TasksOK, Operation
    PROVE  \/ req' = req
           \/ req' = [r \in Req |-> Idle]
           \/ \E r \in Req, t \in Task :
                /\ req' = [req EXCEPT ![r] = t]
                /\ t.pc = "idle" => t = Idle
                /\ t.pc # "idle" => t.user # None
                /\ t.pc \in {"count", "deleteUserRole"} => t.role # None
<1>1. CASE \E u \in User : Register(u)
  BY <1>1 DEF Register
<1>2. CASE Statement
  BY <1>2 DEF Statement, ActivateUser, CreateRole, DeleteRole, CreatePermission,
              DeletePermission, AssignPermissionToRole, RevokePermissionFromRole, AssignRoleToUser
<1>3. CASE \E r \in Req : Begin(r)
  <2>1. PICK r \in Req, u \in User : CountForDeactivate(r, u) \/ \E i \in RoleId : GetRoleByID(r, u, i)
    BY <1>3 DEF Begin
  <2>2. u # None /\ \A i \in RoleId : i # None
    BY ConstantsOK
  <2>3. CASE CountForDeactivate(r, u)
    <3> DEFINE pc == IF CountActiveAdmins <= 1 THEN "listRoles" ELSE "deactivate"
               t == Job(pc, u, None)
    <3>1. req' = [req EXCEPT ![r] = t]
      BY <2>3 DEF CountForDeactivate, Goto
    <3>2. pc \in Step /\ pc \in {"listRoles", "deactivate"}
      BY DEF Step
    <3> HIDE DEF pc
    <3>3. t \in Task /\ t.pc = pc /\ t.user = u
      BY <3>2, TaskFacts
    <3> HIDE DEF t
    <3> QED
      BY <2>2, <3>1, <3>2, <3>3
  <2>4. ASSUME NEW i \in RoleId, GetRoleByID(r, u, i)
        PROVE  \E t \in Task : /\ req' = [req EXCEPT ![r] = t]
                               /\ t.pc # "idle" /\ t.user # None /\ t.role # None
    <3> DEFINE pc == IF roles[i] = Admin THEN "count" ELSE "deleteUserRole"
               t == Job(pc, u, i)
    <3>1. req' = [req EXCEPT ![r] = t]
      BY <2>4 DEF GetRoleByID, Goto
    <3>2. pc \in Step /\ pc # "idle"
      BY DEF Step
    <3> HIDE DEF pc
    <3>3. t \in Task /\ t.pc = pc /\ t.user = u /\ t.role = i
      BY <3>2, TaskFacts
    <3> HIDE DEF t
    <3> QED
      BY <2>2, <3>1, <3>2, <3>3
  <2> QED
    BY <2>1, <2>3, <2>4
<1>4. CASE \E r \in Req : Continue(r)
  <2>1. PICK r \in Req : Continue(r)
    BY <1>4
  <2>2. /\ req[r] \in Task /\ (req[r].pc # "idle" => req[r].user # None)
        /\ req[r].pc \in {"count", "deleteUserRole"} => req[r].role # None
    BY DEF TasksOK
  <2>3. CASE req' = [req EXCEPT ![r] = Idle]
    BY <2>3, TaskFacts
  <2>4. CASE CountForRevoke(r)
    <3> DEFINE t == [req[r] EXCEPT !.pc = "deleteUserRole"]
    <3>1. req' = [req EXCEPT ![r] = t] /\ req[r].pc = "count"
      BY <2>4 DEF CountForRevoke, Advance, Goto
    <3>2. t \in Task /\ t.pc = "deleteUserRole" /\ t.user = req[r].user /\ t.role = req[r].role
      BY <2>2, TaskFacts DEF Step
    <3> HIDE DEF t
    <3> QED
      BY <2>2, <3>1, <3>2
  <2>5. CASE AllowDeactivate(r)
    <3> DEFINE t == [req[r] EXCEPT !.pc = "deactivate"]
    <3>1. req' = [req EXCEPT ![r] = t] /\ req[r].pc = "listRoles"
      BY <2>5 DEF AllowDeactivate, Advance, Goto
    <3>2. t \in Task /\ t.pc = "deactivate" /\ t.user = req[r].user
      BY <2>2, TaskFacts DEF Step
    <3> HIDE DEF t
    <3> QED
      BY <2>2, <3>1, <3>2
  <2> QED
    BY <2>1, <2>3, <2>4, <2>5
    DEF Continue, RefuseRevoke, DeleteUserRole, RefuseDeactivate, DeactivateUser, Fail, Goto
<1>5. CASE Crash
  BY <1>5 DEF Crash
<1> QED
  BY <1>1, <1>2, <1>3, <1>4, <1>5 DEF Operation

LEMMA TasksKept ==
    ASSUME TasksOK, Operation
    PROVE  TasksOK'
<1>1. CASE req' = req
  BY <1>1 DEF TasksOK
<1>2. CASE req' = [r \in Req |-> Idle]
  BY <1>2, TaskFacts DEF TasksOK
<1>3. ASSUME NEW r \in Req, NEW t \in Task, req' = [req EXCEPT ![r] = t],
             t.pc = "idle" => t = Idle, t.pc # "idle" => t.user # None,
             t.pc \in {"count", "deleteUserRole"} => t.role # None
      PROVE  TasksOK'
  BY <1>3 DEF TasksOK
<1> QED
  BY <1>1, <1>2, <1>3, Moves

LEMMA TypeKept ==
    ASSUME TypeOK, [Next]_vars
    PROVE  TypeOK'
<1>1. DataOK /\ TasksOK
  BY DEF TypeOK, DataOK, TasksOK
<1>2. CASE Next
  <2>1. DataOK' /\ TasksOK'
    BY <1>1, <1>2, Effects, DataKept, TasksKept DEF Next
  <2>2. overtaken' \subseteq Req
    BY <1>2 DEF Next, Overtake
  <2> QED
    BY <2>1, <2>2 DEF TypeOK, DataOK, TasksOK
<1>3. CASE UNCHANGED vars
  BY <1>3 DEF vars, TypeOK, TablesOK
<1> QED
  BY <1>2, <1>3

LEMMA TypeAtStart == Init => TypeOK
<1> SUFFICES ASSUME Init PROVE TypeOK
  OBVIOUS
<1>1. DataOK
  <2>1. DOMAIN active = {} /\ active \in [DOMAIN active -> BOOLEAN]
    BY DEF Init, Migrated
  <2>2. DOMAIN roles = {SeedRole} /\ roles[SeedRole] = Admin /\ roles \in [DOMAIN roles -> Name]
    BY TableConstantsOK DEF Init, Migrated
  <2>3. /\ perms = SeedPerms /\ grants = {SeedRole} \X (DOMAIN SeedPerms) /\ userRoles = {}
        /\ spent = {SeedRole} \cup DOMAIN SeedPerms
    BY DEF Init, Migrated
  <2>4. SeedPerms \in [DOMAIN SeedPerms -> Permission]
    BY TableConstantsOK
  <2> QED
    BY <2>1, <2>2, <2>3, <2>4, TableConstantsOK, ConstantsOK DEF DataOK, TablesOK
<1>2. TasksOK
  BY TaskFacts DEF Init, TasksOK
<1> QED
  BY <1>1, <1>2 DEF Init, TypeOK, DataOK, TasksOK

LEMMA TypeInvariant == Spec => []TypeOK
<1>1. TypeOK /\ [Next]_vars => TypeOK'
  BY TypeKept
<1> QED
  BY <1>1, TypeAtStart, PTL DEF Spec

\* Keys, cascades and validation of the five tables hold in every state.
THEOREM TablesKeepTheirKeys == Spec => []TypeOK
BY TypeInvariant

-----------------------------------------------------------------------------
(* The last admin                                                          *)

\* What the statement ahead of a request relies on: some admin is spared.
Relies(r) ==
    /\ req[r].pc \in Counted => AdminLinks # {}
    /\ req[r].pc = "deleteUserRole" =>
         \/ /\ req[r].role \in spent
            /\ req[r].role \notin DOMAIN roles \/ roles[req[r].role] # Admin
         \/ \E l \in AdminLinks : l # <<req[r].user, req[r].role>>
    /\ req[r].pc = "deactivate" => \E l \in AdminLinks : l[1] # req[r].user

\* It is still true of a request that nobody overtook.
Fresh == \A r \in Req : r \notin overtaken => Relies(r)

LEMMA AdminsFinite ==
    ASSUME TypeOK
    PROVE  /\ IsFiniteSet(AdminLinks) /\ CountActiveAdmins \in Nat
           /\ CountActiveAdmins = 0 <=> AdminLinks = {}
<1>1. IsFiniteSet(User \X RoleId)
  BY FS_Product, TableConstantsOK
<1>2. AdminLinks \subseteq User \X RoleId
  BY DEF AdminLinks, TypeOK, TablesOK
<1> QED
  BY <1>1, <1>2, FS_Subset, FS_CardinalityType, FS_EmptySet DEF CountActiveAdmins

LEMMA AdminsFiniteNext ==
    ASSUME TypeOK'
    PROVE  /\ CountActiveAdmins' \in Nat
           /\ CountActiveAdmins' = 0 <=> AdminLinks' = {}
<1>1. IsFiniteSet(User \X RoleId)
  BY FS_Product, TableConstantsOK
<1>2. AdminLinks' \subseteq User \X RoleId
  BY DEF AdminLinks, TypeOK, TablesOK
<1> QED
  BY <1>1, <1>2, FS_Subset, FS_CardinalityType, FS_EmptySet DEF CountActiveAdmins

\* Only one role is called admin: two links are two users.
LEMMA AdminsDiffer ==
    ASSUME TablesOK, NEW l \in AdminLinks, NEW m \in AdminLinks, l[1] = m[1]
    PROVE  l = m
<1>1. /\ l \in (DOMAIN active) \X (DOMAIN roles) /\ m \in (DOMAIN active) \X (DOMAIN roles)
      /\ roles[l[2]] = Admin /\ roles[m[2]] = Admin
  BY DEF AdminLinks, TablesOK
<1>2. l[2] = m[2]
  BY <1>1 DEF TablesOK
<1> QED
  BY <1>1, <1>2

\* With a count above 1, whoever is taken away leaves an admin behind.
LEMMA SpareAdmin ==
    ASSUME TypeOK, CountActiveAdmins > 1, NEW u
    PROVE  \E l \in AdminLinks : l[1] # u
<1>1. PICK l \in AdminLinks : TRUE
  BY AdminsFinite
<1>2. AdminLinks # {l}
  BY FS_Singleton DEF CountActiveAdmins
<1>3. PICK m \in AdminLinks : m # l
  BY <1>1, <1>2
<1> QED
  BY <1>3, AdminsDiffer DEF TypeOK

\* An id that does not stand for the admin role never will.
LEMMA OtherRolesStay ==
    ASSUME TypeOK, Operation, NEW i \in spent, i \notin DOMAIN roles \/ roles[i] # Admin
    PROVE  i \in spent' /\ (i \notin DOMAIN roles' \/ roles'[i] # Admin)
<1>1. Effect
  BY Effects DEF TypeOK, TasksOK
<1>2. ASSUME NEW j \in RoleId, NEW n \in Name, InsertRole(j, n)
      PROVE  i \in spent' /\ (i \notin DOMAIN roles' \/ roles'[i] # Admin)
  BY <1>2 DEF InsertRole
<1>3. ASSUME NEW j \in RoleId, DeleteRoleRow(j)
      PROVE  i \in spent' /\ (i \notin DOMAIN roles' \/ roles'[i] # Admin)
  BY <1>3 DEF DeleteRoleRow
<1>4. CASE roles' = roles /\ spent \subseteq spent'
  BY <1>4
<1> QED
  BY <1>1, <1>2, <1>3, <1>4
  DEF Effect, tables, InsertUser, SetActive, InsertPermission, DeletePermissionRow, InsertGrant,
      DeleteGrant, InsertUserRole, DeleteUserRoleRow

\* The freshness of a request survives every step that does not overtake it.
LEMMA FreshKept ==
    ASSUME TypeOK, Fresh, Next
    PROVE  Fresh'
<1> SUFFICES ASSUME NEW r \in Req, r \notin overtaken', req'[r].pc \in Counted
             PROVE  Relies(r)'
  BY DEF Fresh, Relies, Counted
<1>1. /\ r \notin overtaken /\ Relies(r) /\ AdminLinks' # {}
      /\ req[r].pc \in Counted => AdminLinks \subseteq AdminLinks'
  BY DEF Next, Overtake, Fresh
<1>2. CASE req'[r] = req[r]
  <2>1. /\ req[r].pc \in Counted /\ AdminLinks \subseteq AdminLinks'
    BY <1>1, <1>2
  <2>2. /\ req[r].role \in spent
        /\ req[r].role \notin DOMAIN roles \/ roles[req[r].role] # Admin
        => /\ req[r].role \in spent'
           /\ req[r].role \notin DOMAIN roles' \/ roles'[req[r].role] # Admin
    BY OtherRolesStay DEF Next
  <2> QED
    BY <1>1, <1>2, <2>1, <2>2 DEF Relies
<1>3. CASE req'[r] # req[r]
  <2>1. req[r] \in Task /\ TasksOK
    BY DEF TypeOK, TasksOK
  <2>2. CASE \E s \in Req : Begin(s)
    <3>1. PICK s \in Req, u \in User :
            CountForDeactivate(s, u) \/ \E i \in RoleId : GetRoleByID(s, u, i)
      BY <2>2 DEF Begin
    <3>2. s = r /\ UNCHANGED tables
      BY <1>3, <2>1, <3>1 DEF CountForDeactivate, GetRoleByID, Goto, TasksOK
    <3>3. CASE CountForDeactivate(s, u)
      <4>1. req'[r] = Job(IF CountActiveAdmins <= 1 THEN "listRoles" ELSE "deactivate", u, None)
        BY <3>2, <3>3, <2>1 DEF CountForDeactivate, Goto, TasksOK
      <4>2. /\ req'[r].pc = IF CountActiveAdmins <= 1 THEN "listRoles" ELSE "deactivate"
            /\ req'[r].user = u
        BY <4>1 DEF Job
      <4>3. req'[r].pc = "deactivate" => \E l \in AdminLinks : l[1] # u
        BY <4>2, AdminsFinite, SpareAdmin
      <4>4. AdminLinks' = AdminLinks
        BY <3>2 DEF tables, AdminLinks
      <4> QED
        BY <1>1, <4>2, <4>3, <4>4 DEF Relies
    <3>4. ASSUME NEW i \in RoleId, GetRoleByID(s, u, i)
          PROVE  Relies(r)'
      <4>1. req'[r] = Job(IF roles[i] = Admin THEN "count" ELSE "deleteUserRole", u, i)
        BY <3>2, <3>4, <2>1 DEF GetRoleByID, Goto, TasksOK
      <4>2. req'[r].role = i /\ roles[i] # Admin /\ req'[r].pc = "deleteUserRole"
        BY <4>1 DEF Job, Counted
      <4>3. i \in spent
        BY <3>4 DEF GetRoleByID, TypeOK, TablesOK
      <4> QED
        BY <1>1, <3>2, <4>2, <4>3 DEF tables, Relies
    <3> QED
      BY <1>1, <3>1, <3>3, <3>4
  <2>3. CASE \E s \in Req : Continue(s)
    <3>1. PICK s \in Req : Continue(s)
      BY <2>3
    <3>2. CountForRevoke(s) \/ AllowDeactivate(s)
      BY <1>3, <2>1, <3>1, TaskFacts
      DEF Continue, RefuseRevoke, DeleteUserRole, RefuseDeactivate, DeactivateUser, Fail, Goto,
          TasksOK, Counted
    <3>3. s = r /\ UNCHANGED tables
      BY <1>3, <2>1, <3>2 DEF CountForRevoke, AllowDeactivate, Advance, Goto, TasksOK
    <3>4. AdminLinks' = AdminLinks
      BY <3>3 DEF tables, AdminLinks
    <3>5. CASE CountForRevoke(s)
      <4>1. /\ req'[r].pc = "deleteUserRole" /\ CountActiveAdmins > 1
            /\ req'[r].user = req[r].user /\ req'[r].role = req[r].role
        BY <2>1, <3>3, <3>5, TaskFacts DEF CountForRevoke, Advance, Goto, TasksOK, Step
      <4>2. \E l \in AdminLinks : l[1] # req[r].user
        BY <4>1, SpareAdmin
      <4>3. \E l \in AdminLinks : l # <<req[r].user, req[r].role>>
        BY <4>2
      <4> QED
        BY <1>1, <3>4, <4>1, <4>3 DEF Relies
    <3>6. CASE AllowDeactivate(s)
      <4>1. /\ req'[r].pc = "deactivate" /\ req'[r].user = req[r].user
            /\ ~HasAdminRole(req[r].user) /\ req[r].pc = "listRoles"
        BY <2>1, <3>3, <3>6, TaskFacts DEF AllowDeactivate, Advance, Goto, TasksOK, Step
      <4>2. PICK l \in AdminLinks : TRUE
        BY <1>1, <4>1 DEF Relies, Counted
      <4>3. l[1] # req[r].user
        <5>1. l \in (DOMAIN active) \X (DOMAIN roles) /\ l \in userRoles /\ roles[l[2]] = Admin
          BY DEF AdminLinks, TypeOK, TablesOK
        <5> QED
          BY <4>1, <5>1 DEF HasAdminRole, ListUserRoles
      <4> QED
        BY <1>1, <3>4, <4>1, <4>3 DEF Relies
    <3> QED
      BY <3>2, <3>5, <3>6
  <2>4. ~(\E s \in Req : Begin(s) \/ Continue(s)) => req' = req \/ req'[r] = Idle
    BY DEF Next, Operation, Register, Statement, ActivateUser, CreateRole, DeleteRole,
           CreatePermission, DeletePermission, AssignPermissionToRole,
           RevokePermissionFromRole, AssignRoleToUser, Crash
  <2> QED
    BY <1>3, <2>2, <2>3, <2>4, TaskFacts DEF Counted
<1> QED
  BY <1>2, <1>3

LEMMA FreshInvariant == Spec => [](TypeOK /\ Fresh)
<1>1. Init => Fresh
  BY TaskFacts DEF Init, Fresh, Relies, Counted
<1>2. ASSUME TypeOK, Fresh, [Next]_vars
      PROVE  Fresh'
  <2>1. CASE Next
    BY <1>2, <2>1, FreshKept
  <2>2. CASE UNCHANGED vars
    BY <1>2, <2>2 DEF vars, Fresh, Relies, AdminLinks
  <2> QED
    BY <1>2, <2>1, <2>2
<1> QED
  BY <1>1, <1>2, TypeInvariant, PTL DEF Spec

\* The three statements that can take an admin away; all others leave the admins there.
LEMMA AdminsLeave ==
    ASSUME TypeOK, Operation
    PROVE  \/ AdminLinks \subseteq AdminLinks'
           \/ AdminRoleDeleted
           \/ \E r \in Req : DeleteUserRole(r) \/ DeactivateUser(r)
<1> USE DEF AdminLinks
<1>1. TasksOK /\ TablesOK
  BY DEF TypeOK, TasksOK
<1>2. CASE \E u \in User : Register(u)
  <2>1. PICK u \in User : InsertUser(u)
    BY <1>2 DEF Register
  <2>2. /\ \A v \in DOMAIN active : active'[v] = active[v]
        /\ roles' = roles /\ userRoles' = userRoles
    BY <2>1, <1>1 DEF InsertUser, TablesOK
  <2> QED
    BY <2>2, <1>1 DEF TablesOK
<1>3. CASE \E u \in User : ActivateUser(u)
  <2>1. PICK u \in User : SetActive(u, TRUE)
    BY <1>3 DEF ActivateUser
  <2>2. /\ \A v \in DOMAIN active : active[v] => active'[v]
        /\ roles' = roles /\ userRoles' = userRoles
    BY <2>1, <1>1 DEF SetActive, TablesOK
  <2> QED
    BY <2>2, <1>1 DEF TablesOK
<1>4. CASE \E i \in RoleId, n \in Name : CreateRole(i, n)
  <2>1. PICK i \in RoleId, n \in Name : InsertRole(i, n)
    BY <1>4 DEF CreateRole
  <2>2. /\ \A j \in DOMAIN roles : roles'[j] = roles[j]
        /\ active' = active /\ userRoles' = userRoles
    BY <2>1, <1>1 DEF InsertRole, TablesOK
  <2> QED
    BY <2>2, <1>1 DEF TablesOK
<1>5. CASE \E i \in RoleId : DeleteRole(i)
  <2>1. PICK i \in RoleId : DeleteRoleRow(i)
    BY <1>5 DEF DeleteRole
  <2>2. CASE i \in DOMAIN roles /\ roles[i] = Admin
    BY <2>1, <2>2 DEF DeleteRoleRow, AdminRoleDeleted
  <2>3. CASE ~(i \in DOMAIN roles /\ roles[i] = Admin)
    <3>1. /\ \A j \in DOMAIN roles \ {i} : roles'[j] = roles[j]
          /\ active' = active /\ userRoles' = {l \in userRoles : l[2] # i}
      BY <2>1 DEF DeleteRoleRow
    <3>2. \A l \in userRoles : l[2] \in DOMAIN roles
      BY <1>1 DEF TablesOK
    <3> QED
      BY <2>3, <3>1, <3>2
  <2> QED
    BY <2>2, <2>3
<1>6. CASE \/ \E p \in PermId, a \in Permission : CreatePermission(p, a)
           \/ \E p \in PermId : DeletePermission(p)
           \/ \E i \in RoleId, p \in PermId :
                AssignPermissionToRole(i, p) \/ RevokePermissionFromRole(i, p)
  <2>1. UNCHANGED <<active, roles, userRoles>>
    BY <1>6 DEF CreatePermission, InsertPermission, DeletePermission, DeletePermissionRow,
                AssignPermissionToRole, InsertGrant, RevokePermissionFromRole, DeleteGrant
  <2> QED
    BY <2>1
<1>7. CASE \E u \in User, i \in RoleId : AssignRoleToUser(u, i)
  BY <1>7 DEF AssignRoleToUser, InsertUserRole
<1>8. CASE \E r \in Req : Begin(r)
  BY <1>8 DEF Begin, CountForDeactivate, GetRoleByID, tables
<1>9. CASE \E r \in Req : Continue(r)
  BY <1>9 DEF Continue, CountForRevoke, RefuseRevoke, AllowDeactivate, RefuseDeactivate, Fail, tables
<1>10. CASE Crash
  BY <1>10 DEF Crash, tables
<1> QED
  BY <1>2, <1>3, <1>4, <1>5, <1>6, <1>7, <1>8, <1>9, <1>10 DEF Operation, Statement

\* A removal that nobody overtook leaves an admin behind.
LEMMA RemovalSpares ==
    ASSUME TypeOK, Fresh, NEW r \in Req, DeleteUserRole(r) \/ DeactivateUser(r),
           r \notin overtaken
    PROVE  AdminLinks' # {}
<1>1. TablesOK /\ Relies(r) /\ AdminLinks # {}
  BY DEF TypeOK, Fresh, Relies, DeleteUserRole, DeactivateUser, Counted
<1> DEFINE u == req[r].user
<1>2. CASE DeleteUserRole(r)
  <2> DEFINE l == <<u, req[r].role>>
  <2>1. AdminLinks' = AdminLinks \ {l}
    BY <1>2 DEF DeleteUserRole, DeleteUserRoleRow, AdminLinks
  <2>2. CASE \E m \in AdminLinks : m # l
    BY <2>1, <2>2
  <2>3. CASE req[r].role \notin DOMAIN roles \/ roles[req[r].role] # Admin
    <3>1. l \notin AdminLinks
      BY <2>3, <1>1 DEF AdminLinks, TablesOK
    <3> QED
      BY <1>1, <2>1, <3>1
  <2> QED
    BY <1>1, <1>2, <2>2, <2>3 DEF Relies, DeleteUserRole
<1>3. CASE DeactivateUser(r)
  <2>1. /\ roles' = roles /\ userRoles' = userRoles
        /\ \A v \in DOMAIN active : active'[v] = IF v = u THEN FALSE ELSE active[v]
    BY <1>3 DEF DeactivateUser, SetActive
  <2>2. PICK m \in AdminLinks : m[1] # u
    BY <1>1, <1>3 DEF Relies, DeactivateUser
  <2>3. m \in AdminLinks'
    BY <2>1, <2>2, <1>1 DEF AdminLinks, TablesOK
  <2> QED
    BY <2>3
<1> QED
  BY <1>2, <1>3

\* The guards of RevokeRoleFromUser and DeactivateUser are right about what they read:
\* for any number of admins and requests, only a removal that another removal of an admin
\* overtook takes the last active admin away, or the deletion of the role itself.
THEOREM GuardsOfTheLastAdmin == Spec => LastAdminGuarded
<1> DEFINE Guarded == LastAdminLost => AdminRoleDeleted \/ \E r \in overtaken : Removal(r)
<1>1. ASSUME TypeOK, Fresh, [Next]_vars
      PROVE  [Guarded]_vars
  <2>1. CASE Next
    <3> SUFFICES ASSUME LastAdminLost, ~AdminRoleDeleted
                 PROVE  \E r \in overtaken : Removal(r)
      OBVIOUS
    <3>0. TypeOK'
      BY <1>1, TypeKept
    <3>1. AdminLinks # {} /\ AdminLinks' = {}
      <4>1. CountActiveAdmins' = 0 => AdminLinks' = {}
        BY <3>0, AdminsFiniteNext
      <4> QED
        BY <1>1, <4>1, AdminsFinite DEF LastAdminLost
    <3>2. PICK r \in Req : DeleteUserRole(r) \/ DeactivateUser(r)
      BY <1>1, <2>1, <3>1, AdminsLeave DEF Next
    <3>3. r \in overtaken
      BY <1>1, <3>1, <3>2, RemovalSpares
    <3>4. Removal(r)
      BY <1>1, <3>2 DEF Removal, DeleteUserRole, DeactivateUser, Goto, TypeOK
    <3> QED
      BY <3>3, <3>4
  <2>2. CASE UNCHANGED vars
    BY <2>2
  <2> QED
    BY <1>1, <2>1, <2>2
<1> QED
  BY <1>1, FreshInvariant, PTL DEF Spec, LastAdminGuarded

\* While removals come one at a time and the role stays, there is an active admin for
\* ever, and no request in flight that could take the last one away: a removal is
\* overtaken by another removal only.
THEOREM AdminsAreKept == Spec => AdminsRemain
<1>1. ASSUME TypeOK, Fresh, [Next]_vars
      PROVE  [AdminsSafe /\ OneRemovalAtATime /\ ~AdminRoleDeleted => AdminsSafe']_vars
  <2> SUFFICES ASSUME Next, AdminsSafe, OneRemovalAtATime, ~AdminRoleDeleted
               PROVE  AdminsSafe'
    BY <1>1
  <2>0. TypeOK'
    BY <1>1, TypeKept
  <2>1. AdminLinks # {}
    BY <1>1, AdminsFinite DEF AdminsSafe
  <2>2. /\ AdminLinks' # {}
        /\ \A r \in Req : req[r].pc \in Counted /\ req'[r].pc \in Counted =>
             AdminLinks \subseteq AdminLinks'
    <3>1. CASE AdminLinks \subseteq AdminLinks'
      BY <2>1, <3>1
    <3>2. CASE \E r \in Req : DeleteUserRole(r) \/ DeactivateUser(r)
      <4>1. PICK r \in Req : DeleteUserRole(r) \/ DeactivateUser(r)
        BY <3>2
      <4>2. AdminLinks' # {}
        BY <1>1, <4>1, RemovalSpares DEF AdminsSafe
      <4>3. req[r].pc \in Counted /\ req'[r].pc \notin Counted
        BY <1>1, <4>1, TaskFacts DEF DeleteUserRole, DeactivateUser, Goto, Counted, TypeOK
      <4> QED
        BY <4>2, <4>3 DEF OneRemovalAtATime
    <3> QED
      BY <1>1, <3>1, <3>2, AdminsLeave DEF Next
  <2>3. overtaken' = {}
    BY <2>2 DEF Next, Overtake, AdminsSafe
  <2>4. CountActiveAdmins' # 0 /\ CountActiveAdmins' \in Nat
    BY <2>0, <2>2, AdminsFiniteNext
  <2> QED
    BY <2>3, <2>4 DEF AdminsSafe
<1> QED
  BY <1>1, FreshInvariant, PTL DEF Spec, AdminsRemain

-----------------------------------------------------------------------------
(* Permissions                                                             *)

\* A permission that stays linked stays what it was.
LEMMA LinkedPermissionsStay ==
    ASSUME DataOK, Effect
    PROVE  \A h \in grants \cap grants' : perms'[h[2]] = perms[h[2]]
<1> SUFFICES ASSUME NEW h \in grants, h \in grants'
             PROVE  perms'[h[2]] = perms[h[2]]
  OBVIOUS
<1>1. h[2] \in DOMAIN perms /\ h[2] \in spent
  BY DEF DataOK, TablesOK
<1>2. CASE perms' = perms
  BY <1>2
<1>3. ASSUME NEW p \in PermId, NEW a \in Permission, InsertPermission(p, a)
      PROVE  perms'[h[2]] = perms[h[2]]
  BY <1>1, <1>3 DEF InsertPermission
<1>4. ASSUME NEW p \in PermId, DeletePermissionRow(p)
      PROVE  perms'[h[2]] = perms[h[2]]
  BY <1>1, <1>4 DEF DeletePermissionRow
<1> QED
  BY <1>2, <1>3, <1>4
  DEF Effect, tables, InsertUser, SetActive, InsertRole, DeleteRoleRow, InsertGrant, DeleteGrant,
      InsertUserRole, DeleteUserRoleRow

\* Deleting and creating roles and permissions again gives nobody a permission: only a
\* new link or an activation does.
THEOREM PowerComesFromGrants == Spec => PowerNeedsGrant
<1> DEFINE Gain(u) == \/ Effective(u)' \subseteq Effective(u)
                      \/ \E l \in userRoles' \ userRoles : l[1] = u
                      \/ \E g \in grants' \ grants : <<u, g[1]>> \in userRoles
                      \/ active'[u] /\ ~active[u]
<1>1. ASSUME TypeOK, [Next]_vars
      PROVE  [\A u \in DOMAIN active : Gain(u)]_vars
  <2> SUFFICES ASSUME Next, NEW u \in DOMAIN active,
                      ~\E l \in userRoles' \ userRoles : l[1] = u,
                      ~\E g \in grants' \ grants : <<u, g[1]>> \in userRoles,
                      ~(active'[u] /\ ~active[u])
               PROVE  Effective(u)' \subseteq Effective(u)
    BY <1>1
  <2>1. DataOK /\ TasksOK
    BY <1>1 DEF TypeOK, DataOK, TasksOK
  <2>2. Effect
    BY <2>1, Effects DEF Next
  <2> SUFFICES ASSUME NEW s \in Effective(u)'
               PROVE  s \in Effective(u)
    OBVIOUS
  <2>3. PICK h \in grants' : <<u, h[1]>> \in userRoles' /\ s = Text[perms'[h[2]]] /\ active'[u]
    BY DEF Effective
  <2>4. active[u] /\ <<u, h[1]>> \in userRoles
    BY <2>3
  <2>5. h \in grants
    BY <2>3, <2>4
  <2>6. perms'[h[2]] = perms[h[2]]
    BY <2>1, <2>2, <2>3, <2>5, LinkedPermissionsStay
  <2> QED
    BY <2>3, <2>4, <2>5, <2>6 DEF Effective
<1> QED
  BY <1>1, TypeInvariant, PTL DEF Spec, PowerNeedsGrant
=============================================================================
