SPECIFICATION Spec
CONSTANTS
    company = company
    admin = admin
    u1 = u1
    u2 = u2
    Uids <- TwoUids
    Browsers = {b1}
    Requests <- TwoRequests
    s1 = s1
    s2 = s2
    Roles = {company, admin}
    Routes <- MCRoutes
    TokenLife = 0
    MaxTime = 1
    MaxPasswords = 1
    NoToken = NoToken
    Nobody = Nobody
    NoBrowser = NoBrowser
INVARIANTS
    TypeOK
    PairBelongsTogether
    AdmittedWasEntitled
    NotThrownOut
    JarFollowsUser
SYMMETRY Symmetry
CHECK_DEADLOCK FALSE
