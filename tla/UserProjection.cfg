SPECIFICATION FairUserSpec
CONSTANTS
    Leads = {l1}
    Users <- MCUsers
    Uuids <- MCUuids
    Tokens <- MCTokens
    Handlers = {h1}
    Uploads <- MCUploads
    AllowedMimeTypes <- MCMimeTypes
    MaxFileSizeBytes = 2
    Paths = {p1, p2}
    Scores = {700}
    Reasons = {risk}
    Null = Null
    MaxHistory = 5
    SERVICE_IDENTITY = "bank"
    MaxPending = 2
    MaxFaults = 1
INVARIANTS
    EventsMatchHistory
    ProjectionTrue
PROPERTIES
    RowsPublished
    ProjectionSettles
