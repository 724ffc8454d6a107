SPECIFICATION Spec
CONSTANTS
    Users = {ann}
    RefreshTokens = {t1, t2, t3}
    Families = {f1}
    Handlers = {h1, h2}
    refreshTtlMs = 1
    MaxTime = 2
    Null = Null
INVARIANT ReuseEndsSession
