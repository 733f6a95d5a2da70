\* One server; torn appends of every kind, kills outside the index build.
SPECIFICATION Spec
CONSTANTS
    Procs = {p1}
    Insights = {i1, i2}
    None = None
    Garbled = Garbled
    Binary = Binary
    Whole = Whole
    Tears = {Garbled, Binary, Whole}
    KillPoints <- NotWhileBuilding
    CoarseClock = FALSE
    MaxLines = 3
    MaxCommits = 2
INVARIANTS IndexFresh
PROPERTIES StoreSpec
CHECK_DEADLOCK FALSE
