\* One request at a time: the user edits and submits a REQUEST.
CONSTANTS
    u1 = u1
    i1 = i1
    i2 = i2
    k1 = k1
    k2 = k2
    NoUser = NoUser
    NoEntity = NoEntity
    Users = {u1}
    Owner <- MCOwner
    Infos <- OneCompany
    Contents = {"a", "b"}
    Clients <- OneClient
    Sent <- AllStatuses
    MaxRows = 2
    MaxCards = 3
SPECIFICATION SpecWithoutFailures
PROPERTY
    SubmittedEditIsNewVersion
