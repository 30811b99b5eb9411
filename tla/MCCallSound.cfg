CONSTANTS
    Calls <- MCCalls
    OwnBytes = 4
SPECIFICATION FairSpec
INVARIANTS TypeOK ArgumentsArrive ResultsArrive CallerFrameKept
PROPERTIES KeepsPromise Completes
CHECK_DEADLOCK FALSE
