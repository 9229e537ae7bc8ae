CONSTANTS
    Channels = {0, 2}
    Buffers = {0, 1}
    BlockSize = 2
    Blocks = {1, 2, 3, 4}
    Chain <- MCChain
    First <- MCFirst
    DirSize = 1
    MessageLen = 2
    CmdMax = 1
SPECIFICATION Spec
INVARIANTS BuffersOwned WithinBuffer LedShowsError
PROPERTIES FileInOrder
CHECK_DEADLOCK FALSE
