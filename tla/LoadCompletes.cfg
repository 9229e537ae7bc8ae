CONSTANTS
    Handlers = {}
    MaxNesting = 3
    RomsLoad = {TRUE}
SPECIFICATION LifecycleFairSpec
PROPERTIES LoadCompletes
CHECK_DEADLOCK FALSE
