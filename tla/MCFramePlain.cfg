SPECIFICATION Spec
CONSTANTS
    ArgRegs <- MCArgRegs
    SavedRegs <- MCSavedRegs
    RegNo <- MCRegNo
    Shapes <- PlainShapes
    AllocaLimit = 36
INVARIANTS
    TypeOK
    CalleeSavedRestored
    LocalsKept
    OutArgsDelivered
    UnwindsToCaller
CHECK_DEADLOCK FALSE
