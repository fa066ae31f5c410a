SPECIFICATION Spec
CONSTANTS
    ana = ana
    bob = bob
    anaTyped = anaTyped
    bobTyped = bobTyped
    padded = padded
    None = None
    User = {ana}
    Spelling = {anaTyped, padded}
    WellFormed = {anaTyped}
    Normal <- MCNormal
    Password = {p1, short}
    Acceptable = {p1}
    Token = {t1, t2, t3}
    Req = {r1, r2}
    RefreshTTL = 0
    MaxTime = 1
    Faults = TRUE
SYMMETRY Symmetry
INVARIANTS TypeOK TradedTokenIsDead
PROPERTIES DeadFamilyStaysDead CleanerSparesUsable NoSessionWhileInactive ImplementsLife
