CONSTANTS
    Reg <- AllRegs
    QueueCap = 2
    WaitTimeout = 0
    LineCap = 1
    Faults = {"lost", "exception", "garbled", "io_error"}
    Prompt = FALSE
    MaxUnit = 0
    UnitLists <- OneUnit
    GatewayFaults = {"open_fails", "negative"}
    MaxErr = 2
    ReopenWait = 0
    ReadInterval = 1
    ReadWaitTimeout = 0
    WriteWaitTimeout = 0
    CmdCap = 2
    Batches <- OneUnitBatches
SPECIFICATION Spec
CHECK_DEADLOCK FALSE
INVARIANTS TypeOK PortAgrees InitQueryPending TasksExclude CommandAvailable OnlyInitialisingCrashes
PROPERTIES UsesModbus
