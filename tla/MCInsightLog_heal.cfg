\* Two servers, killed anywhere, their appends torn.
SPECIFICATION Spec
CONSTANTS
    Procs = {p1, p2}
    Insights = {i1, i2}
    None = None
    Garbled = Garbled
    Binary = Binary
    Whole = Whole
    Tears = {Garbled}
    KillPoints <- Anywhere
    CoarseClock = FALSE
    MaxLines = 2
    MaxCommits = 0
SYMMETRY Symmetry
PROPERTIES Heals
CHECK_DEADLOCK FALSE
