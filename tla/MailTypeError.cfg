\* One request at a time, no failures: a REQUEST for a company without a user.
CONSTANTS
    u1 = u1
    i1 = i1
    i2 = i2
    k1 = k1
    k2 = k2
    NoUser = NoUser
    NoEntity = NoEntity
    Users = {u1}
    Owner <- MCOwner
    Infos <- TwoCompanies
    Contents = {"a"}
    Clients <- OneClient
    Sent <- AllStatuses
    MaxRows = 1
    MaxCards = 3
SPECIFICATION SpecWithoutFailures
PROPERTY
    FailedChangesNothing
