SPECIFICATION DisciplinedSpec
CONSTANTS
    ana = ana
    bob = bob
    anaTyped = anaTyped
    bobTyped = bobTyped
    padded = padded
    None = None
    User = {ana, bob}
    Spelling = {anaTyped, bobTyped}
    WellFormed = {anaTyped, bobTyped}
    Normal <- MCNormal
    Password = {p1, p2}
    Acceptable = {p1, p2}
    Token = {t1, t2}
    Req = {r1, r2}
    RefreshTTL = 0
    MaxTime = 1
    Faults = TRUE
SYMMETRY Symmetry
INVARIANTS FamilyHasOneUser OneLiveTokenPerFamily ReuseEndsFamily SessionsMatchPassword
PROPERTIES ImplementsPromise FormerPasswordStaysOut
