\* Every family of repositories; a run may be killed anywhere and started again.
SPECIFICATION Spec
CONSTANTS
    Repos <- MCRepos
    Edited <- MCEdited
    CoChangesThreshold = 2
    MaxRuns = 2
INVARIANTS BuildIsConsistent PreciseCallsAreLinked NamesLandRight
CHECK_DEADLOCK FALSE
