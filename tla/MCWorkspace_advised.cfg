CONSTANTS
    Actors <- MCActors
    OsProcess <- MCOsProcess
    Repos = {"api", "old/api", "web"}
    RepoOf <- MCRepoOf
    NameOf <- MCNameOf
    Release <- MCRelease
    Role <- MCRole
    Targets = {"CLAUDE.md"}
    Batches = 2
    MaxEdits = 1
    Casts <- AdvisedCasts
SPECIFICATION Spec
PROPERTY
    AdviceWorks
CHECK_DEADLOCK FALSE
