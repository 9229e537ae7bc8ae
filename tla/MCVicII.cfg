SPECIFICATION VicSpec
CONSTANTS
    Sources <- VicSources
    CiaSources = {}
    Saved <- MCSaved
    RowLines = 4
    Rows = 2
    TOTAL_RASTERS = 18
    HighLine = 14
    RASTER_VALUES = 28
    FIRST_DISP_LINE = 2
    LAST_DISP_LINE = 15
    FIRST_DMA_LINE = 4
    ROW25_YSTART = 5
    ROW25_YSTOP = 13
    ROW24_YSTART = 7
    ROW24_YSTOP = 11
    Sprites = {"s"}
    SpriteLines = 2
    Collisions = {"background"}
    Frequencies = {1, 2}
    Controls <- MCControls
    LowLines = {0, 3}
    Ys = {2, 6}
    Masks <- MCMasks
    MaxAccesses = 2
INVARIANTS PictureInOrder SpritesInOrder
PROPERTIES RowsFit RasterEdge
