\* Two extracts share the cache, two languages of the same bytes; kills, failed
\* writes and an entry that is spoiled.
SPECIFICATION Spec
CONSTANTS
    f1 = f1
    f2 = f2
    ts = ts
    tsx = tsx
    Procs = {p1, p2}
    Paths = {f1, f2}
    Contents = {c1, c2}
    Languages = {ts, tsx}
    Language <- TwoLanguages
    Builds = {b1}
    None = None
    Torn = Torn
    Damages = {binary}
    Undecodable = {binary}
    Misnaming <- Renamed
    MidRun = {None}
    Failures = TRUE
SYMMETRY Symmetry
VIEW View
INVARIANTS WarmIsCold NothingDropped
CHECK_DEADLOCK FALSE
