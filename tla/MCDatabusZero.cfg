SPECIFICATION Spec
CONSTANTS
    Ctrl = {c1, c2}
    StatusId = {s1}
    MaxLen = 2
    StatusLen <- Longest
    MaxStarts = 1
    ZeroId = TRUE
    Faults = {}
INVARIANTS LockedIsZero
