CONSTANTS
    Half = 2
    Programs <- UnsignedGreaterPrograms
    AllowInserts = FALSE
SPECIFICATION FairSpec
PROPERTY
    FollowsFunction
CHECK_DEADLOCK FALSE
