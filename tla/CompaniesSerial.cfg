SPECIFICATION Spec
CONSTANTS
    u1 = u1
    u2 = u2
    a1 = a1
    f1 = f1
    f2 = f2
    Users = {u1}
    Admins = {a1}
    Companies = {k1, k2}
    Files = {f1, f2}
    UserForms <- SerialForms
    AdminForms <- FromAdmin
    Uploads <- PairUploads
    Clients = {c1}
    FirstYear = 3
    LastYear = 4
    MaxFailures = 1
    NoPerson = NoPerson
    NoCompany = NoCompany
    NoInformation = NoInformation
    NoFile = NoFile
    NoForm = NoForm
INVARIANTS
    TypeOK
    SubmittedIsWhole
    AnswerShowsFiles
    AnsweredIsWhole
PROPERTIES
    OneRowPerYear
    AttachedForGood
    ProcessedIsFinal
