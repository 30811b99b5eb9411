CONSTANTS
    Programs <- MCPrograms
    Inputs <- MCInputs
    Byte <- MCByte
SPECIFICATION FairSpec
INVARIANTS TypeOK ComputesSource TextReadsBack Untangled NeverStuck
PROPERTY Completes
CHECK_DEADLOCK FALSE
