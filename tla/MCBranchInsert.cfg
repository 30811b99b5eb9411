CONSTANTS
    Half = 2
    Programs <- JumpBehindPrograms
    AllowInserts = TRUE
SPECIFICATION FairSpec
PROPERTY
    FollowsFunction
CHECK_DEADLOCK FALSE
