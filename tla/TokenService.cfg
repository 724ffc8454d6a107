SPECIFICATION Spec
CONSTANTS
    Users = {ann, bob}
    RefreshTokens = {t1, t2, t3, t4}
    Families = {f1, f2}
    Handlers = {h1, h2}
    refreshTtlMs = 1
    MaxTime = 2
    Null = Null
SYMMETRY MCSymmetry
INVARIANTS
    OneUserPerFamily
    Lineage
    LiveTokensTraced
PROPERTIES
    SessionsStayEnded
    DisabledGetsNoToken
    ImplementsSessions
