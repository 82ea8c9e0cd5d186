SPECIFICATION CanvasSpec
CONSTANTS
    Word = 65536
    Thousandths = {0, 999, 1000}
    Radii = {299, 300}
    Colors <- MCColors
    Displays <- MCDisplays
    Levels <- MCLevels
    NoBrightness = NoBrightness
    NoParam = NoParam
    NoFrame = NoFrame
    NegativeCasts = {"saturates"}
    UseRosenDrawing = FALSE
INVARIANT InterpolatesLinearly
