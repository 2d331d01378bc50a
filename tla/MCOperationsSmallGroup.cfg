SPECIFICATION Spec
CONSTANTS
    u1 = u1
    u2 = u2
    r1 = r1
    j1 = j1
    d1 = d1
    w1 = w1
    w2 = w2
    None = None
    Users <- MCUsers
    Records <- MCRecords
    Jobs <- MCJobs
    Days <- MCDays
    Invocations <- MCInvocations
    Increments <- MCIncrements
    MinGroupSize = 5
    MaxTime = 5
    MaxUsers = 7
\* The clock is bounded, and a canceled job or a full day stays as it is.
CHECK_DEADLOCK FALSE
INVARIANT
    MarkedOnceLarge
