SPECIFICATION UwSpec
CONSTANTS
    Leads = {l1}
    Users <- MCUsers
    Uuids <- MCUuids
    Tokens <- MCTokens
    Handlers = {h1}
    Uploads <- MCUploads
    AllowedMimeTypes <- MCMimeTypes
    MaxFileSizeBytes = 2
    Paths = {p1}
    Scores = {700}
    Reasons = {risk}
    Null = Null
    MaxHistory = 4
    Runs = {r1, r2}
    Chunks = {c1, c2}
    RETRIEVAL_TOP_K = 2
    RERANK_TOP_N = 1
    PRIOR_RUNS_LIMIT = 1
    Decisions = {"APPROVE", "DECLINE"}
    MaxRuns = 3
SYMMETRY MCSymmetry
INVARIANTS
    SnapshotTrue
    HistorySeen
    DecisionsGrounded
