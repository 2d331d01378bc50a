SPECIFICATION FairSpec
CONSTANTS
    u1 = u1
    u2 = u2
    r1 = r1
    r2 = r2
    w1 = w1
    w2 = w2
    super = super
    region = region
    d1 = d1
    d2 = d2
    Users <- MCUsers
    Scopes <- MCScopes
    Super = super
    Seeded <- MCSeeded
    Destinations <- MCDestinations
    BulkMinimum = 1
    BulkMaximum = 2
    Requests <- MCRequests
    Workers <- MCWorkers
    InitialStatuses = {"candidate"}
    Submitted <- MCSubmitted
INVARIANTS
    TypeOK
    EvidenceTellsDecision
    AssignmentsAccountedFor
    ReflectedOnce
PROPERTIES
    SuperAdminKept
    LedgerImplemented
    TransactionsEnd
