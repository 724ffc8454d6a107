SPECIFICATION FairUserSpec
CONSTANTS
    Leads = {l1}
    Users <- MCUsers
    Uuids <- MCUuids
    Tokens <- MCTokens
    Handlers = {h1}
    Uploads <- MCUploads
    AllowedMimeTypes <- MCMimeTypes
    MaxFileSizeBytes = 2
    Paths = {p1}
    Scores = {700}
    Reasons = {risk}
    Null = Null
    MaxHistory = 6
    SERVICE_IDENTITY = "bank"
    MaxPending = 2
    MaxFaults = 0
PROPERTY ProjectionFresh
