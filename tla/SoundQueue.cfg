SPECIFICATION FairSpec
CONSTANTS
    N = 4
    FramesPerBuffer = 2
    HiWater = 1
    LoWater = 5
    Buffers = {h1, h2}
INVARIANTS FragmentsConserved OneOwner SamplesTrackQueue LatencyBounded CallbackHasData
PROPERTIES SoundFlows
CHECK_DEADLOCK FALSE
