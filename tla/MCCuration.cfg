SPECIFICATION Spec
CONSTANTS
    u1 = u1
    u2 = u2
    p1 = p1
    d1 = d1
    d2 = d2
    m1 = m1
    w1 = w1
    w2 = w2
    None = None
    Users <- MCUsers
    Proposals <- MCProposals
    Destinations <- MCDestinations
    Slots <- MCSlots
    Invocations <- MCInvocations
    PublishJobTypes <- MCJobTypes
    BulkMinimum = 1
    BulkMaximum = 1
    MaxPublications = 2
SYMMETRY MCSymmetry
\* A rejected proposal, or a month expired, leaves nothing to do.
CHECK_DEADLOCK FALSE
INVARIANTS
    CurationTypeOK
    HistoryTellsTruth
    PromotedWereApproved
    JobsAccounted
PROPERTIES
    StampsKept
    BoardImplemented
