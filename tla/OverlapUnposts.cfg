\* Two overlapping requests, no failures: a POSTED row is un-posted.
CONSTANTS
    u1 = u1
    i1 = i1
    i2 = i2
    k1 = k1
    k2 = k2
    NoUser = NoUser
    NoEntity = NoEntity
    Users = {u1}
    Owner <- MCOwner
    Infos <- OneCompany
    Contents = {"a"}
    Clients <- TwoClients
    Sent <- AllStatuses
    MaxRows = 1
    MaxCards = 3
SPECIFICATION SpecWithoutFailures
PROPERTY
    PostedStaysPosted
