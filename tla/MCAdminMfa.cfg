SPECIFICATION MfaSpec
CONSTANTS
    u1 = u1
    s1 = s1
    s2 = s2
    w1 = w1
    w2 = w2
    k1 = k1
    k2 = k2
    Users <- MCUsers
    Sessions <- TwoSessions
    Owner <- OwnerOfTwo
    Secrets <- TwoSecrets
    Workers <- MCWorkers
    BatchSize = 1
    MaxAttempts = 3
    LockSteps = 1
    SessionSteps = 1
    LastStep = 3
CONSTRAINT MCExplored
SYMMETRY MCSymmetry
\* The explored time ends at LastStep, where a locked credential refuses all.
CHECK_DEADLOCK FALSE
INVARIANTS
    SessionsProven
    MfaTypeOK
    LockoutBoundsGuesses
PROPERTY
    CodesSingleUse
