\* Two sign-ups of one address overlap.
CONSTANTS
    u1 = u1
    u2 = u2
    u3 = u3
    u4 = u4
    u5 = u5
    t1 = t1
    t2 = t2
    k1 = k1
    k2 = k2
    NoAccount = NoAccount
    NoRow = NoRow
    NoUid = NoUid
    NoToken = NoToken
    Emails = {"e1"}
    AdminEmails = {}
    SignUpRoles = {"company"}
    Uids <- FiveUids
    Tokens <- TwoTokens
    Clients <- TwoClients
SPECIFICATION SpecOfSignUps
INVARIANT
    RowHasAccount
CHECK_DEADLOCK FALSE
