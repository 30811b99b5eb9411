SPECIFICATION Spec
CONSTANTS
    ArgRegs <- MCArgRegs
    SavedRegs <- MCSavedRegs
    RegNo <- MCRegNo
    Shapes <- HandlerShapes
    AllocaLimit = 36
INVARIANTS
    CalleeSavedRestored
CHECK_DEADLOCK FALSE
