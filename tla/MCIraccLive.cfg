CONSTANTS
    Reg <- AllRegs
    QueueCap = 1
    WaitTimeout = 1
    LineCap = 1
    Faults = {"lost", "exception"}
    Prompt = TRUE
    MaxUnit = 2
    UnitLists <- SparsePairOrNone
    GatewayFaults = {"negative"}
    MaxErr = 2
    ReopenWait = 0
    ReadInterval = 0
    ReadWaitTimeout = 0
    WriteWaitTimeout = 0
    CmdCap = 2
    Batches <- TwoCommands
SPECIFICATION FairSpec
CHECK_DEADLOCK FALSE
INVARIANTS  AnswersArePaired
PROPERTIES RoundEnds BatchEnds CommandsTaken InitializationEnds
