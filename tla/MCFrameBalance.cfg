SPECIFICATION Spec
CONSTANTS
    ArgRegs <- MCArgRegs
    SavedRegs <- MCSavedRegs
    RegNo <- MCRegNo
    Shapes <- BalancedShapes
    AllocaLimit = 36
INVARIANTS
    ReturnsToCaller
    FrameIndexAgrees
CHECK_DEADLOCK FALSE
