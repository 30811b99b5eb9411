CONSTANTS
    Programs <- MCStorePrograms
    Inputs <- MCInputs
    Byte <- MCByte
SPECIFICATION Spec
INVARIANT ComputesSource
CHECK_DEADLOCK FALSE
