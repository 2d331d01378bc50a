SPECIFICATION AuthzSpec
CONSTANTS
    u1 = u1
    u2 = u2
    r1 = r1
    r2 = r2
    w1 = w1
    l1 = l1
    super = super
    region = region
    Users <- MCUsers
    Scopes <- MCScopes
    Super = super
    RoleScopes <- MCSuperOnly
    Seeded <- MCSeededTwo
    Destinations = {}
    BulkMinimum = 1
    BulkMaximum = 1
    Requests <- MCOneRequest
    Workers <- MCWorkers
    InitialStatuses = {"candidate"}
    Submitted <- MCRevoked
    Logins <- MCLogins
    MaxTokens = 1
PROPERTY
    RevocationBlocksNewTokens
