\* Two overlapping requests on two rows of one company.
CONSTANTS
    u1 = u1
    i1 = i1
    i2 = i2
    k1 = k1
    k2 = k2
    NoUser = NoUser
    NoEntity = NoEntity
    Users = {u1}
    Owner <- MCOwner
    Infos <- OneCompany
    Contents = {"a"}
    Clients <- TwoClients
    Sent <- DraftAndSubmit
    MaxRows = 2
    MaxCards = 3
SYMMETRY Symmetry
SPECIFICATION Spec
INVARIANT
    TypeOK
    OnlySubmittedIsPosted
    PostedHasCard
    VersionChain
    ViewsAgree
PROPERTY
    IdentityIsFixed
