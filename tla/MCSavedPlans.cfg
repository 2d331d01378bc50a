SPECIFICATION MCSpec
CONSTANTS
    u1 = u1
    u2 = u2
    p1 = p1
    p2 = p2
    k1 = k1
    c1 = c1
    c2 = c2
    c3 = c3
    w1 = w1
    w2 = w2
    w3 = w3
    spa = spa
    bay = bay
    port = port
    fair = fair
    isle = isle
    cove = cove
    None = None
    Cities <- MCCities
    CityOf <- MCCityOf
    Country <- MCCountry
    Themes <- MCThemes
    Pictured <- MCPictured
    StatedCountry <- MCStatedCountry
    PrefixCountry <- MCPrefixCountry
    BirthYear <- MCBirthYear
    ThisYear = 2026
    SignalLimits <- MCSignalLimits
    PopularLimit = 2
    Limit = 2
    Users <- MCUsers
    Plans <- MCPlans
    Keys <- MCKeys
    Contents <- MCContents
    Submits <- MCSubmits
    SharedContents <- MCShared
    Items = 2
    Invocations <- MCInvocations
SYMMETRY MCSymmetry
\* Every request has been served and every plan is deleted.
CHECK_DEADLOCK FALSE
INVARIANTS
    SavedTypeOK
    ItemsFollowPlan
    PrivateStaysPrivate
    LikesByOwner
    ReactionsFollowLikes
    AgeGroupsOfTwo
PROPERTY
    LivePlansKept
