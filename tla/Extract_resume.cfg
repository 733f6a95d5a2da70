\* Edits in the middle of runs and interrupted runs; contents never come back.
SPECIFICATION Spec
CONSTANTS
    Procs = {p1}
    Files = {f1, f2}
    Versions = {0, 1, 2}
    Outsides = {0, 1}
    OutDirs = {docs}
    Artifacts = {brief, map}
    None = None
    Torn = Torn
    Reverts = FALSE
    MidRunEdits = TRUE
    Aborts = TRUE
    Forced = FALSE
    Deletes = FALSE
PROPERTIES HitIsCurrent RecordedRunIsWhole
CHECK_DEADLOCK FALSE
