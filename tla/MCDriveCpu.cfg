SPECIFICATION Spec
CONSTANTS
    num_sectors <- Tracks2
    Blocks <- MCBlocks
    BlockSize = 4
    IdAt = 2
    IdTrack = 1
    Disks = {d1, d2}
    NoDisk = NoDisk
    FirstPaths = {d1}
    ReadOnly = {d2}
    TooShort = {}
    Image <- MCImage
    MaxTimer = 1
    FloppyCycles = 1
    Latches = {1}
    PortValues <- MCPorts
    Ids <- MCIds
    Saved <- MCSaved
    MaxJobs = 3
INVARIANTS SleepsWithoutWork BusFollowsAtn DiskReadsBack
PROPERTIES ResetTaken
