\* Two companies, four rows: two versions of each, or four of one company.
CONSTANTS
    i1 = i1
    i2 = i2
    Infos <- MCInfos
    Contents <- MCContents
    MaxRows = 4
SYMMETRY Symmetry
SPECIFICATION Spec
INVARIANT
    TypeOK
    OriginalIsPosted
    CardIdentifiesCompany
    CardsWithoutGaps
    NobodyFallsBehind
PROPERTY
    PostedIsFinal
