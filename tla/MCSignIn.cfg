SPECIFICATION Spec
CONSTANTS
    u1 = u1
    u2 = u2
    i1 = i1
    i2 = i2
    s1 = s1
    w1 = w1
    w2 = w2
    mail = mail
    None = None
    Users <- MCUsers
    Identities <- MCIdentities
    Sessions <- MCSessions
    Invocations <- MCInvocations
    Address <- MCAddress
    Claims <- MCClaims
SYMMETRY MCSymmetry
\* Every user is suspended.
CHECK_DEADLOCK FALSE
INVARIANTS
    SignInTypeOK
    SessionsOfOwner
    JoinedByProof
    OneUserPerEmail
PROPERTIES
    LogoutLasts
    SuspensionLasts
