SPECIFICATION Spec
CONSTANTS
    i1 = i1
    p1 = p1
    manageUsers = manageUsers
    readUsersAll = readUsersAll
    readAllUsers = readAllUsers
    None = None
    User = {ana, bob}
    RoleId = {i1, i2}
    Name = {admin, editor, blank}
    Admin = admin
    PermId = {p1, p2}
    Permission = {manageUsers, readUsersAll, readAllUsers, blank}
    Scope = {manageUsers, readUsersAll, blank}
    Text <- MCText
    Acceptable = {admin, editor, manageUsers, readUsersAll, readAllUsers}
    SeedRole = i1
    SeedPerms <- MCSeedPerms
    Req = {r1, r2}
    Faults = TRUE
SYMMETRY Symmetry
INVARIANTS TypeOK
PROPERTIES LastAdminGuarded AdminsRemain PowerNeedsGrant
