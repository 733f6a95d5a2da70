CONSTANTS
    Symbols = {1, 2, 3, 4}
    MaxMatches = 3
    MaxRows = 3
    MaxSiblings = 1
    MaxCallees = 2
    MaxPaths = 4
    TailBound = 3
    FocusLimit = 1
    CoChangeCap = 1
    Pool = 4
    RrfK = 60
    Hits = 4
    Cases <- MCCases
    FileOf <- MCFileOf
    LanguageOf <- MCLanguageOf
    DirectoryOf <- MCDirectoryOf
    RoleOf <- MCRoleOf
    KindOf <- MCKindOf
SPECIFICATION SpecQuery
INVARIANTS
    ImpactIsReach
    FlowIsFaithful
    TailIsReach
    PayloadIsSound
    UncutIsComplete
    DiagramIsHonest
    NamesFirst
PROPERTY
    Returns
CHECK_DEADLOCK FALSE
