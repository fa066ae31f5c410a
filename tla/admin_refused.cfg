SPECIFICATION EstablishedSpec
CONSTANTS
    i1 = i1
    p1 = p1
    manageUsers = manageUsers
    readUsersAll = readUsersAll
    readAllUsers = readAllUsers
    None = None
    User = {ana, bob}
    RoleId = {i1}
    Name = {admin, editor}
    Admin = admin
    PermId = {}
    Permission = {}
    Scope = {}
    Text <- MCText
    Acceptable = {admin, editor, manageUsers, readUsersAll, readAllUsers}
    SeedRole = i1
    SeedPerms <- MCSeedPerms
    Req = {r1}
    Faults = FALSE
SYMMETRY Symmetry
PROPERTIES RefusedIsLastAdmin
