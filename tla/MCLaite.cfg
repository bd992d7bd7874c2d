CONSTANTS
    Workers = {w1, w2}
    Nobody = nobody
    Switches <- SomeSwitches
    Outlets = {0, 1}
    Lengths = {16, 22}
    MaxCalls = 3
SPECIFICATION FairSpec
INVARIANTS TypeOK AnswerIsOwn StateAgrees
PROPERTIES CallsEnd
CHECK_DEADLOCK FALSE
