CONSTANTS
    Bytes <- SomeBytes
    Errors <- SomeErrors
    MaxLen = 4
SPECIFICATION Spec
INVARIANTS WholeAccepted DamagedRejected MergedRejected
