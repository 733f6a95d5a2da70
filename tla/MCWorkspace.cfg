CONSTANTS
    Actors <- MCActors
    OsProcess <- MCOsProcess
    Repos = {"api", "old/api", "web"}
    RepoOf <- MCRepoOf
    NameOf <- MCNameOf
    Release <- MCRelease
    Role <- MCRole
    Targets = {"CLAUDE.md"}
    Batches = 2
    MaxEdits = 1
    Casts <- MCCasts
SPECIFICATION Spec
INVARIANTS
    GraphOfOneExtract
    NotInItsOwnWay
    
PROPERTIES
    AnswersAreWhole
    OwnExtractIsSeen
    UserTextIsKept
CHECK_DEADLOCK FALSE
