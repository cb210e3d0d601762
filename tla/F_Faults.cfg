SPECIFICATION Spec
CONSTANTS
    Handlers = {h1, h2}
    Contents = {x, y}
    MaxPosts = 3
    Threshold = 2
    MaxTracked = 2
    Window = 2
    WarningTTL = 3
    Grace = 1
    None = None
    Calm = FALSE
    MayCrash = TRUE
    TelegramMayFail = TRUE
    RedisMayFail = TRUE
INVARIANT TypeOK
INVARIANT OnlySeriesDeleted
SYMMETRY Symmetry
