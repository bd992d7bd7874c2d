CONSTANTS
    Reg <- AllRegs
    QueueCap = 2
    WaitTimeout = 1
    LineCap = 1
    Faults = {"exception"}
    Prompt = TRUE
    MaxUnit = 0
    UnitLists <- OneUnit
    GatewayFaults = {}
    MaxErr = 2
    ReopenWait = 0
    ReadInterval = 1
    ReadWaitTimeout = 1
    WriteWaitTimeout = 1
    CmdCap = 2
    Batches = {}
SPECIFICATION Spec
INVARIANT TimeoutReachesHandler
