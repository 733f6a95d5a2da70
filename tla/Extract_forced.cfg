\* A --force run is interrupted.
SPECIFICATION Spec
CONSTANTS
    Procs = {p1}
    Files = {f1, f2}
    Versions = {0, 1, 2}
    Outsides = {0}
    OutDirs = {docs}
    Artifacts = {brief, map}
    None = None
    Torn = Torn
    Reverts = FALSE
    MidRunEdits = FALSE
    Aborts = TRUE
    Forced = TRUE
    Deletes = FALSE
PROPERTIES HitIsCurrent
CHECK_DEADLOCK FALSE
