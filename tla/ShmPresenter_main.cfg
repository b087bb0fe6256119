CONSTANTS
    Img = {i1, i2}
    MaxPresents = 4
    Widths = {1, 3, 4, 5, 8, 9}
    Heights = {1, 2, 3, 9}
    Paddings = {0, 1}
    Concurrency = {0, 2, 3, 12}
    Threshold = 6
SPECIFICATION Spec
INVARIANT AwaitNeverBlocks
INVARIANT CopyWritesEveryPixelOnce
PROPERTY GeometrySyncNeverOverwritesQueued
CHECK_DEADLOCK FALSE
