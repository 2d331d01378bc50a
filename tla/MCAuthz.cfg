SPECIFICATION MCSpec
CONSTANTS
    u1 = u1
    u2 = u2
    r1 = r1
    r2 = r2
    w1 = w1
    l1 = l1
    super = super
    region = region
    Users <- MCUsers
    Scopes <- MCScopes
    Super = super
    RoleScopes <- MCSuperOnly
    Seeded <- MCSeededOne
    Destinations = {}
    BulkMinimum = 1
    BulkMaximum = 1
    Requests <- MCRequests
    Workers <- MCWorkers
    InitialStatuses = {"candidate"}
    Submitted <- MCSucceeded
    Logins <- MCLogins
    MaxTokens = 1
INVARIANTS
    AuthzTypeOK
    AuthorityAccountedFor
    DecidersWereSuperAdmins
PROPERTY
    RevocationTakesEffect
