CONSTANTS
    Handlers = {"disappear", "resign", "activate", "alert", "prefs"}
    MaxNesting = 3
    RomsLoad = {TRUE, FALSE}
SPECIFICATION LifecycleFairSpec
INVARIANTS NoOrphanedPause
PROPERTIES ResumedRuns WaitEndsWhileAsked KeepsProtocol
CHECK_DEADLOCK FALSE
