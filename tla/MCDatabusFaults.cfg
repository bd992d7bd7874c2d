SPECIFICATION FairSpec
CONSTANTS
    Ctrl = {c1, c2}
    StatusId = {}
    MaxLen = 1
    StatusLen = {}
    MaxStarts = 2
    ZeroId = FALSE
    Faults = {"kill_ctrl", "term_gate"}
INVARIANTS MutualExclusion
CHECK_DEADLOCK FALSE
PROPERTIES CtrlEnds IsMailbox
