SPECIFICATION Spec
CONSTANTS
    Ctrl = {c1, c2}
    StatusId = {s1, s2}
    MaxLen = 2
    StatusLen <- Both
    MaxStarts = 1
    ZeroId = FALSE
    Faults = {"kill_ctrl"}
INVARIANTS TypeOK CommandsWhole LastCommandKept StatusWhole
CHECK_DEADLOCK FALSE
