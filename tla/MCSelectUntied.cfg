CONSTANTS
    Programs <- OperandBlocks
    Inputs <- MCInputs
    Byte <- MCByte
SPECIFICATION Spec
INVARIANT ComputesInAnyRegisters
CHECK_DEADLOCK FALSE
