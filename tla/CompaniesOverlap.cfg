SPECIFICATION FairSpec
CONSTANTS
    u1 = u1
    u2 = u2
    a1 = a1
    f1 = f1
    f2 = f2
    Users = {u1}
    Admins = {a1}
    Companies = {k1, k2}
    Files = {f1, f2}
    UserForms <- OverlapForms
    AdminForms <- OverlapAdminForms
    Uploads <- PairUploads
    Clients = {c1, c2}
    FirstYear = 3
    LastYear = 3
    MaxFailures = 1
    NoPerson = NoPerson
    NoCompany = NoCompany
    NoInformation = NoInformation
    NoFile = NoFile
    NoForm = NoForm
INVARIANTS
    FileOfOwner
    RowHasObject
PROPERTIES
    Answered
