CONSTANTS
    Texts <- SomeTexts
    LineRoom = 3
    CmdCap = 3
    StrayValues <- SomeValues
    Devices = {0, 1}
    MaxTexts = 2
SPECIFICATION Spec
INVARIANTS TypeOK LineIsCommand TemperatureWithinTenth TextIsBatch SettingsReach
CHECK_DEADLOCK FALSE
