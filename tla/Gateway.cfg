SPECIFICATION FairGatewaySpec
CONSTANTS
    Requests <- MCRequests
    Keys <- MCKeys
    limit <- MCLimits
    windowMs = 4
    timeoutMs = 1
    Skews <- MCSkews
    MaxDelay = 1
    MaxTime = 5
    Null = Null
    Ips = {"ip1"}
    Users = {"ann", "bob"}
    Clients <- MCClients
    authMaxRequests = 1
    generalMaxRequests = 1
CHECK_DEADLOCK FALSE
INVARIANTS
    WindowLimited
    AuthQuota
    OwnQuota
PROPERTIES
    RetryExact
    Answered
