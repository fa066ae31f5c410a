SPECIFICATION FairServerSpec
CONSTANTS
    Conn = {c1, c2}
    MaxConns = 1
    Migrations = 3
    Timeout = 4
    Grace = 2
    Period = 5
INVARIANTS ServerTypeOK PoolConserved ServesReady 
PROPERTIES StopSparesQuick StopsAfterSignal CleanedWhileUp
