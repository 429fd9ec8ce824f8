\* One request at a time; two companies, two rows, two texts.
CONSTANTS
    u1 = u1
    i1 = i1
    i2 = i2
    k1 = k1
    k2 = k2
    NoUser = NoUser
    NoEntity = NoEntity
    Users = {u1}
    Owner <- MCOwner
    Infos <- TwoCompanies
    Contents = {"a", "b"}
    Clients <- OneClient
    Sent <- AllStatuses
    MaxRows = 2
    MaxCards = 3
SPECIFICATION FairSpec
PROPERTY
    TableSpec
    MasterShowsWholeCompany
    Answered
