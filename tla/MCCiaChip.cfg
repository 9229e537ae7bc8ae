SPECIFICATION ChipSpec
CONSTANTS
    MaxTimer = 7
    CiaCycles = 3
    Latches = {0, 5}
    CIAIRQHack = FALSE
    MaxWrites = 3
    Times <- CarryTimes
    MaxFrames = 6
INVARIANTS PendingIsRaised LineFollowsIcr
PROPERTIES OneShotStops RunningTimerFires TicksLikeClock
CHECK_DEADLOCK FALSE
