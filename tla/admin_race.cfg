SPECIFICATION EstablishedSpec
CONSTANTS
    i1 = i1
    p1 = p1
    manageUsers = manageUsers
    readUsersAll = readUsersAll
    readAllUsers = readAllUsers
    None = None
    User = {ana, bob}
    RoleId = {i1, i2}
    Name = {admin, editor}
    Admin = admin
    PermId = {}
    Permission = {}
    Scope = {}
    Text <- MCText
    Acceptable = {admin, editor, manageUsers, readUsersAll, readAllUsers}
    SeedRole = i1
    SeedPerms <- MCSeedPerms
    Req = {r1, r2}
    Faults = FALSE
SYMMETRY Symmetry
PROPERTIES LastAdminStays
