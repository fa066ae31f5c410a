SPECIFICATION AccessSpec
CONSTANTS
    i1 = i1
    p1 = p1
    None = None
    User = {ana, bob}
    RoleId = {i1, i2}
    Name = {admin}
    Admin = admin
    PermId = {p1, p2}
    Permission = {manageRoles}
    Scope = {manageRoles}
    Text <- MCText
    Acceptable = {admin, manageRoles}
    Manage = manageRoles
    SeedRole = i1
    SeedPerms <- MCSeedPerms
    Req = {r1}
    Login = {k1}
    AccessTTL = 1
    MaxJwts = 2
    Faults = TRUE
SYMMETRY Symmetry
INVARIANTS AccessTypeOK StalePowerExpires
PROPERTIES LockoutIsFinal
