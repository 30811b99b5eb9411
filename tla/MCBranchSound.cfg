CONSTANTS
    Half = 2
    Programs <- SoundPrograms
    AllowInserts = FALSE
SPECIFICATION FairSpec
INVARIANTS
    TypeOK
    AnalysisTrue
PROPERTIES
    FollowsFunction
    Returns
CHECK_DEADLOCK FALSE
