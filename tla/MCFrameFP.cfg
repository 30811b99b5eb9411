SPECIFICATION Spec
CONSTANTS
    ArgRegs <- MCArgRegs
    SavedRegs <- MCSavedRegs
    RegNo <- MCRegNo
    Shapes <- FPShapes
    AllocaLimit = 36
INVARIANTS
    SavedFPKept
CHECK_DEADLOCK FALSE
