CONSTANTS
    Reg = {0, 1}
    QueueCap = 2
    WaitTimeout = 1
    LineCap = 2
    Faults = {"lost", "exception", "garbled", "io_error"}
    Prompt = FALSE
SPECIFICATION MFairSpec
INVARIANTS MTypeOK ClosedIsQuiet
PROPERTIES OneAtATime WaitEnds
