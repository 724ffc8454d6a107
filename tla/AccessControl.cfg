SPECIFICATION AcSpec
CONSTANTS
    Users = {ann, ada}
    RefreshTokens = {t1, t2}
    Families = {f1, f2}
    Handlers = {h1}
    refreshTtlMs = 1
    MaxTime = 1
    Null = Null
    Calls = {c1}
    RequestedRoles = {"APPLICANT", "ADMIN", "SYSTEM"}
    accessTtl = 1
SYMMETRY MCSymmetry
INVARIANTS
    ClaimsExpire
    NoSelfServiceAdmin
    LockedOut
PROPERTY
    DeactivationSticks
