SPECIFICATION Spec
CONSTANTS
    Leads = {l1}
    Users <- MCUsers
    Uuids <- MCUuids
    Tokens <- MCTokens
    Handlers = {h1, h2}
    Uploads <- MCUploads
    AllowedMimeTypes <- MCMimeTypes
    MaxFileSizeBytes = 2
    Paths = {p1, p2}
    Scores = {700}
    Reasons = {risk}
    Null = Null
    MaxHistory = 6
PROPERTY TerminalIsFinal
