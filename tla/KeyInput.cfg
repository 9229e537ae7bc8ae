SPECIFICATION FairSpec
CONSTANTS
    UiKeys = {"CLT", "RUNSTOP", "TOGGLE_SPEED"}
    MaxPresses = 2
    MaxLaunches = 1
INVARIANTS TapSeen AllKeysUp
PROPERTIES KeysComeUp
