SPECIFICATION Spec
CONSTANTS
    ana = ana
    bob = bob
    anaTyped = anaTyped
    bobTyped = bobTyped
    padded = padded
    None = None
    User = {ana}
    Spelling = {anaTyped}
    WellFormed = {anaTyped}
    Normal <- MCNormal
    Password = {p1, p2}
    Acceptable = {p1, p2}
    Token = {t1, t2, t3}
    Req = {r1, r2}
    RefreshTTL = 0
    MaxTime = 0
    Faults = FALSE
SYMMETRY Symmetry
INVARIANTS SessionsMatchPassword
